---- MODULE Spec2Model ----
(***************************************************************************)
(* A state-machine model of the IA-64 emulator's speculation and memory    *)
(* subsystems: the Advanced Load Address Table (src/src/cpu/alat.rs), the   *)
(* Load and Store executors (src/src/cpu/instructions/memory.rs) and the    *)
(* region + three-level cache memory manager (src/src/memory/mod.rs).       *)
(*                                                                         *)
(* Representation notes.                                                    *)
(*  - Addresses are naturals far below 2^31; u64 wrap-around of addresses   *)
(*    is outside the inputs enumerated here.                                *)
(*  - A 64-bit data value is the tuple of its 8 bytes, least significant    *)
(*    first, so (value >> (8*i)) & 0xFF is value[i+1].                      *)
(***************************************************************************)
EXTENDS Integers, Sequences, FiniteSets, TLC

VARIABLES
    alat,       \* ALAT.entries : Vec<Entry>, front = oldest
    gr,         \* Cpu.gr, the general registers the instructions name
    pr,         \* Cpu.pr, the predicate registers the instructions name
    mem,        \* Memory: regions and the three cache levels
    panicked,   \* a slice index went out of range: the thread has panicked
    nops,       \* number of memory operations / instructions performed
    shadow,     \* byte i of the region as the latest successful write left it
    writesOnly, \* every memory operation so far was a successful write
    last,       \* the operation performed by the latest step and its outcome
    scn,        \* progress through a literal scenario, -1 once off the script
    rse,        \* RSE: the register stack engine and its backing store
    fresh,      \* bases of the regions not written since they were mapped
    cr,         \* Cpu.system_regs.cr, the control register file
    ic,         \* InterruptController: table, pending, current, nesting_level
    delivered,  \* the interrupts delivered and not yet returned from
    sc,         \* SyscallManager: the registered handlers and current context
    dec,        \* Decoder: the current bundle and the slot cursor
    cfm,        \* Cpu.cfm, the current frame marker
    pfs,        \* Cpu.pfs, the previous function state
    recency,    \* the step of the latest access to each line of an L1 set
    raised      \* the interrupts raised so far, those of them whose handler
                \* address a call has returned, and those raised since the
                \* handler table last changed

\* the parts of the processor outside the registers, the memory and the RSE
rest == <<ic, delivered, sc, dec, cfm, pfs, recency, raised>>

vars == <<alat, gr, pr, mem, panicked, nops, shadow, writesOnly, last, scn,
          rse, fresh, cr, rest>>

\* what the ALAT operations leave alone
machine == <<gr, pr, mem, panicked, nops, shadow, writesOnly, rse, fresh, cr,
             rest>>

\* a run that does not use the parts in `rest`
RestInit ==
    /\ ic = << >>
    /\ delivered = << >>
    /\ recency = << >>
    /\ raised = {}
    /\ sc = << >>
    /\ dec = << >>
    /\ cfm = 0
    /\ pfs = 0

(***************************************************************************)
(* src/src/cpu/alat.rs                                                     *)
(***************************************************************************)

\* const ALAT_ENTRY_SIZE: u64 = 8
ALAT_ENTRY_SIZE == 8

\* const MAX_ALAT_ENTRIES: usize = 32, scaled down so that TLC fills the table
MAX_ALAT_ENTRIES == 3

EntryState == {"Invalid", "Valid", "Invalidated"}

Entry_new(address, size, register, is_integer) ==
    [address |-> address, size |-> size, register |-> register,
     state |-> "Valid", is_integer |-> is_integer]

\* address & !(ALAT_ENTRY_SIZE - 1)
AlignDown(address) == address - (address % ALAT_ENTRY_SIZE)

Entry_overlaps(e, address, size) ==
    IF e.state # "Valid" THEN FALSE
    ELSE LET entry_aligned     == AlignDown(e.address)
             entry_end_aligned == entry_aligned + ALAT_ENTRY_SIZE
             access_start      == address
             access_end        == access_start + size
         IN  access_start < entry_end_aligned /\ entry_aligned < access_end

ALAT_new == << >>

SamePair(e, register, is_integer) ==
    e.register = register /\ e.is_integer = is_integer

\* a faulty add_entry that never drops the oldest entry
add_entry_unbounded(entries, address, size, register, is_integer) ==
    Append(SelectSeq(entries, LAMBDA e : ~SamePair(e, register, is_integer)),
           Entry_new(address, size, register, is_integer))

add_entry(entries, address, size, register, is_integer) ==
    LET kept  == SelectSeq(entries, LAMBDA e : ~SamePair(e, register, is_integer))
        room  == IF Len(kept) >= MAX_ALAT_ENTRIES THEN Tail(kept) ELSE kept
    IN  Append(room, Entry_new(address, size, register, is_integer))

check_register(entries, register, is_integer) ==
    \E k \in 1..Len(entries) :
        SamePair(entries[k], register, is_integer) /\ entries[k].state = "Valid"

invalidate_overlap(entries, address, size) ==
    [k \in 1..Len(entries) |->
        IF Entry_overlaps(entries[k], address, size)
        THEN [entries[k] EXCEPT !.state = "Invalidated"]
        ELSE entries[k]]

invalidate_register(entries, register, is_integer) ==
    [k \in 1..Len(entries) |->
        IF SamePair(entries[k], register, is_integer)
        THEN [entries[k] EXCEPT !.state = "Invalid"]
        ELSE entries[k]]

clear(entries) == << >>

valid_entries(entries) ==
    Cardinality({k \in 1..Len(entries) : entries[k].state = "Valid"})

check_address(entries, address, size) ==
    \E k \in 1..Len(entries) :
        Entry_overlaps(entries[k], address, size) /\ entries[k].state = "Valid"

\* the first entry of the pair, 0 when there is none (Iterator::find)
FindPair(entries, register, is_integer) ==
    LET hits == {k \in 1..Len(entries) : SamePair(entries[k], register, is_integer)}
    IN  IF hits = {} THEN 0 ELSE CHOOSE k \in hits : \A j \in hits : k <= j

update_entry_state(entries, register, is_integer, state) ==
    LET k == FindPair(entries, register, is_integer)
    IN  IF k # 0
        THEN [ok |-> TRUE,  entries |-> [entries EXCEPT ![k].state = state]]
        ELSE [ok |-> FALSE, entries |-> entries]

remove_entry(entries, register, is_integer) ==
    SelectSeq(entries, LAMBDA e : ~SamePair(e, register, is_integer))

RECURSIVE DropOldest(_)
DropOldest(entries) ==
    IF Len(entries) > MAX_ALAT_ENTRIES THEN DropOldest(Tail(entries)) ELSE entries

\* a faulty purge_old_entries that keeps the Invalidated entries
purge_old_entries_invalid_only(entries) ==
    DropOldest(SelectSeq(entries, LAMBDA e : e.state # "Invalid"))

purge_old_entries(entries) ==
    DropOldest(SelectSeq(entries, LAMBDA e : e.state = "Valid"))

(***************************************************************************)
(* src/src/memory/mod.rs                                                   *)
(***************************************************************************)

RECURSIVE Pow2(_)
Pow2(n) == IF n = 0 THEN 1 ELSE 2 * Pow2(n - 1)

\* usize::trailing_zeros of a positive number
RECURSIVE trailing_zeros(_)
trailing_zeros(n) == IF n % 2 = 1 THEN 0 ELSE 1 + trailing_zeros(n \div 2)

\* dst[offset..offset+src.len()].copy_from_slice(src), dst and src as
\* sequences whose element i+1 is byte i
CopyInto(dst, offset, src) ==
    [i \in 1..Len(dst) |->
        IF i > offset /\ i <= offset + Len(src) THEN src[i - offset] ELSE dst[i]]

Zeros(n) == [i \in 1..n |-> 0]

\* Only({e : x \in {v}}) is e with x standing for the value of v
Only(S) == CHOOSE x \in S : TRUE

can_read(p) == p \in {"Read", "ReadWrite", "ReadExecute", "ReadWriteExecute"}

\* can_write with the permission check left out
can_write_any(p) == TRUE

can_write(p) == p \in {"ReadWrite", "ReadWriteExecute"}

CacheLine_new(tag, size) ==
    [tag |-> tag, data |-> Zeros(size), state |-> "Invalid", last_access |-> 0]

CacheSet_new(index, associativity, line_size) ==
    [lines |-> [w \in 1..associativity |-> CacheLine_new(0, line_size)],
     access_counter |-> 0, index |-> index]

\* the first element of a non-empty set of way numbers
First(ways) == CHOOSE w \in ways : \A v \in ways : w <= v

\* CacheSet::find_line: way 0 stands for None
find_line(set, tag) ==
    LET counter == set.access_counter + 1
        hits == {w \in 1..Len(set.lines) :
                    set.lines[w].state # "Invalid" /\ set.lines[w].tag = tag}
    IN  IF hits = {}
        THEN [set |-> [set EXCEPT !.access_counter = counter], way |-> 0]
        ELSE [set |-> [set EXCEPT !.access_counter = counter,
                                  !.lines[First(hits)].last_access = counter],
              way |-> First(hits)]

\* CacheSet::find_victim: an Invalid line first, else the first line of the
\* least last_access (Iterator::min_by_key returns the first minimum)
find_victim(set) ==
    LET ways    == 1..Len(set.lines)
        invalid == {w \in ways : set.lines[w].state = "Invalid"}
        lru     == {w \in ways : \A v \in ways :
                        set.lines[w].last_access <= set.lines[v].last_access}
    IN  [set |-> [set EXCEPT !.access_counter = @ + 1],
         way |-> IF invalid # {} THEN First(invalid) ELSE First(lru)]

\* CacheSet::find_line_mut: the first line of the tag, whatever its state
find_line_mut(set, tag) ==
    LET hits == {w \in 1..Len(set.lines) : set.lines[w].tag = tag}
    IN  IF hits = {} THEN 0 ELSE First(hits)

CacheLevel_new(size, associativity, line_size) ==
    LET num_sets == size \div (associativity * line_size)
    IN  [sets |-> [i \in 0..(num_sets - 1) |->
                      CacheSet_new(i, associativity, line_size)],
         num_sets |-> num_sets,
         associativity |-> associativity,
         line_size |-> line_size,
         line_bits |-> trailing_zeros(line_size),
         set_bits |-> trailing_zeros(num_sets),
         non_temporal |-> FALSE,
         write_policy |-> "WriteThrough"]

decompose_address(level, addr) ==
    [offset  |-> addr % Pow2(level.line_bits),
     set_idx |-> (addr \div Pow2(level.line_bits)) % Pow2(level.set_bits),
     tag     |-> addr \div Pow2(level.line_bits + level.set_bits)]

compose_address(level, tag, set_idx) ==
    tag * Pow2(level.line_bits + level.set_bits) + set_idx * Pow2(level.line_bits)

\* CacheLevel::read of len bytes: [level, hit, data]
CacheLevel_read(level, addr, len) ==
    IF level.non_temporal THEN [level |-> level, hit |-> FALSE, data |-> << >>]
    ELSE LET d == decompose_address(level, addr)
         IN  Only({ IF f.way # 0
                    THEN [level |-> [level EXCEPT !.sets[d.set_idx] = f.set],
                          hit |-> TRUE,
                          data |-> SubSeq(f.set.lines[f.way].data,
                                          d.offset + 1, d.offset + len)]
                    ELSE [level |-> [level EXCEPT !.sets[d.set_idx] = f.set],
                          hit |-> FALSE, data |-> << >>]
                    : f \in { find_line(level.sets[d.set_idx], d.tag) } })

\* CacheLevel::write_to_cache: [level, evicted, old_addr, old_data, panic].
\* panic: the slice data[offset..offset+len] ends past the line.
write_to_cache(level, addr, data) ==
    LET d       == decompose_address(level, addr)
        set     == level.sets[d.set_idx]
        counter == set.access_counter
        hit     == find_line_mut(set, d.tag)
        v       == find_victim(set)
        victim  == v.set.lines[v.way]
    IN  IF d.offset + Len(data) > level.line_size
        THEN [level |-> level, evicted |-> FALSE, old_addr |-> 0,
              old_data |-> << >>, panic |-> TRUE]
        ELSE IF hit # 0
        THEN [level |-> [level EXCEPT
                  !.sets[d.set_idx].lines[hit].data = CopyInto(@, d.offset, data),
                  !.sets[d.set_idx].lines[hit].state = "Modified",
                  !.sets[d.set_idx].lines[hit].last_access = counter,
                  !.sets[d.set_idx].access_counter = @ + 1],
              evicted |-> FALSE, old_addr |-> 0, old_data |-> << >>, panic |-> FALSE]
        ELSE [level |-> [level EXCEPT
                  !.sets[d.set_idx] =
                      [v.set EXCEPT
                          !.lines[v.way] =
                              [tag |-> d.tag,
                               data |-> CopyInto(victim.data, d.offset, data),
                               state |-> "Modified",
                               last_access |-> counter],
                          !.access_counter = @ + 1]],
              evicted |-> (victim.state = "Modified"),
              old_addr |-> compose_address(level, victim.tag, d.set_idx),
              old_data |-> IF victim.state = "Modified" THEN victim.data ELSE << >>,
              panic |-> FALSE]

\* the Modified lines of sets i.. in set order then line order
RECURSIVE DirtyFrom(_, _)
DirtyFrom(level, i) ==
    IF i >= level.num_sets THEN << >>
    ELSE LET lines == level.sets[i].lines
             here  == [w \in 1..Len(lines) |->
                          [addr |-> compose_address(level, lines[w].tag, i),
                           data |-> lines[w].data,
                           dirty |-> lines[w].state = "Modified"]]
         IN  SelectSeq(here, LAMBDA x : x.dirty) \o DirtyFrom(level, i + 1)

\* CacheLevel::flush: [level, dirty]
CacheLevel_flush(level) ==
    [level |-> [level EXCEPT !.sets =
                   [i \in DOMAIN level.sets |->
                       [level.sets[i] EXCEPT !.lines =
                           [w \in DOMAIN level.sets[i].lines |->
                               IF level.sets[i].lines[w].state = "Modified"
                               THEN [level.sets[i].lines[w] EXCEPT !.state = "Exclusive"]
                               ELSE level.sets[i].lines[w]]]]],
     dirty |-> DirtyFrom(level, 0)]

set_non_temporal(level, value) == [level EXCEPT !.non_temporal = value]

\* Memory::new builds L1 = 32 KiB / 8-way / 64-byte lines (64 sets),
\* L2 = 256 KiB / 8-way / 64-byte lines (512 sets) and L3 = 6 MiB / 12-way /
\* 128-byte lines (4096 sets).  The model keeps the shape at a size TLC can
\* fill and evict: L1 and L2 share a line size (2^LineBits bytes, longer than
\* the widest access), L3's line is twice that, set counts are powers of two
\* and every level has at least two sets, so that adjacent lines never share
\* a set.
LineBits == 4

L1_LINE_SIZE == Pow2(LineBits)

L2_LINE_SIZE == Pow2(LineBits)

L3_LINE_SIZE == Pow2(LineBits + 1)

L1SetBits == 1

L2SetBits == 1

L3SetBits == 1

L1Assoc == 2

L2Assoc == 2

L3Assoc == 2

\* Memory::new; the speculative-load log is not modelled
Memory_new ==
    [regions |-> << >>,
     l1 |-> CacheLevel_new(Pow2(L1SetBits) * L1Assoc * L1_LINE_SIZE,
                           L1Assoc, L1_LINE_SIZE),
     l2 |-> CacheLevel_new(Pow2(L2SetBits) * L2Assoc * L2_LINE_SIZE,
                           L2Assoc, L2_LINE_SIZE),
     l3 |-> CacheLevel_new(Pow2(L3SetBits) * L3Assoc * L3_LINE_SIZE,
                           L3Assoc, L3_LINE_SIZE)]

set_cache_hints(m, hint) ==
    LET nt == CASE hint = "NonTemporal1"   -> <<TRUE, FALSE, FALSE>>
                [] hint = "NonTemporalAll" -> <<TRUE, TRUE, TRUE>>
                [] hint = "Bias"           -> <<FALSE, FALSE, FALSE>>
                [] hint = "Normal"         -> <<FALSE, FALSE, FALSE>>
    IN  [m EXCEPT !.l1 = set_non_temporal(@, nt[1]),
                  !.l2 = set_non_temporal(@, nt[2]),
                  !.l3 = set_non_temporal(@, nt[3])]

\* Memory::map; regions is the BTreeMap keyed by base
map(m, base, size, permissions) ==
    IF \E b \in DOMAIN m.regions :
          b <= base /\ m.regions[b].base + m.regions[b].size > base
    THEN [m |-> m, res |-> "Err"]
    ELSE [m |-> [m EXCEPT !.regions =
                    [b \in DOMAIN m.regions \cup {base} |->
                        IF b = base
                        THEN [base |-> base, size |-> size,
                              permissions |-> permissions, data |-> Zeros(size)]
                        ELSE m.regions[b]]],
          res |-> "Ok"]

\* Memory::unmap
unmap(m, base) ==
    IF base \notin DOMAIN m.regions THEN [m |-> m, res |-> "Err"]
    ELSE [m |-> [m EXCEPT !.regions =
                    [b \in DOMAIN m.regions \ {base} |-> m.regions[b]]],
          res |-> "Ok"]

NoRegion == -1

\* Memory::find_region: the base of the region holding addr, or NoRegion
find_region(regions, addr) ==
    LET below == {b \in DOMAIN regions : b <= addr}
    IN  IF below = {} THEN NoRegion
        ELSE LET b == CHOOSE x \in below : \A y \in below : y <= x
             IN  IF addr >= regions[b].base + regions[b].size THEN NoRegion ELSE b

\* write_to_cache on the level into data at that address
FillLevel(level, addr, byte) ==
    IF level.non_temporal THEN level ELSE write_to_cache(level, addr, <<byte>>).level

\* the cache part of Memory::read_u8: L1, then L2, then L3, each hit filling
\* the levels above it; a miss everywhere returns the region's byte and
\* fills L3, L2 within L3, L1 within L2
ReadThrough(m, addr, memory_data) ==
    Only({
      IF r1.hit
      THEN [m |-> [m EXCEPT !.l1 = r1.level], ok |-> TRUE, val |-> r1.data[1]]
      ELSE Only({
        IF r2.hit
        THEN [m |-> [m EXCEPT !.l1 = FillLevel(r1.level, addr, r2.data[1]),
                              !.l2 = r2.level],
              ok |-> TRUE, val |-> r2.data[1]]
        ELSE Only({
          IF r3.hit
          THEN [m |-> [m EXCEPT !.l1 = FillLevel(r1.level, addr, r3.data[1]),
                                !.l2 = FillLevel(r2.level, addr, r3.data[1]),
                                !.l3 = r3.level],
                ok |-> TRUE, val |-> r3.data[1]]
          ELSE LET nt3 == m.l3.non_temporal
                   nt2 == nt3 \/ m.l2.non_temporal
                   nt1 == nt2 \/ m.l1.non_temporal
               IN  [m |-> [m EXCEPT
                       !.l1 = IF nt1 THEN r1.level
                              ELSE write_to_cache(r1.level, addr, <<memory_data>>).level,
                       !.l2 = IF nt2 THEN r2.level
                              ELSE write_to_cache(r2.level, addr, <<memory_data>>).level,
                       !.l3 = IF nt3 THEN r3.level
                              ELSE write_to_cache(r3.level, addr, <<memory_data>>).level],
                    ok |-> TRUE, val |-> memory_data]
          : r3 \in { CacheLevel_read(m.l3, addr, 1) } })
        : r2 \in { CacheLevel_read(m.l2, addr, 1) } })
      : r1 \in { CacheLevel_read(m.l1, addr, 1) } })

\* Memory::read_u8: [m, ok, val]
read_u8(m, addr) ==
    LET b == find_region(m.regions, addr)
    IN  IF b = NoRegion THEN [m |-> m, ok |-> FALSE, val |-> 0]
        ELSE IF ~can_read(m.regions[b].permissions)
        THEN [m |-> m, ok |-> FALSE, val |-> 0]
        ELSE ReadThrough(m, addr, m.regions[b].data[(addr - m.regions[b].base) + 1])

\* the evicted Modified line written to the region of its address, if it fits
CommitEvicted(m, old_addr, old_data) ==
    LET b == find_region(m.regions, old_addr)
        offset == old_addr - m.regions[b].base
    IN  IF b = NoRegion THEN [m |-> m, res |-> "Err"]
        ELSE IF offset + Len(old_data) <= m.regions[b].size
        THEN [m |-> [m EXCEPT !.regions[b].data = CopyInto(@, offset, old_data)],
              res |-> "Ok"]
        ELSE [m |-> m, res |-> "Ok"]

\* one level of Memory::write_to_caches: write_to_cache, then the evicted
\* Modified line committed to the region that holds its address
WriteLevel(m, lv, addr, data) ==
    Only({ IF w.panic THEN [m |-> m, res |-> "Panic"]
           ELSE IF ~w.evicted THEN [m |-> [m EXCEPT ![lv] = w.level], res |-> "Ok"]
           ELSE CommitEvicted([m EXCEPT ![lv] = w.level], w.old_addr, w.old_data)
           : w \in { write_to_cache(m[lv], addr, data) } })

\* the cache part of Memory::write_to_caches: L3, L2 within L3, L1 within
\* L2, each unless the level is non-temporal; the first failure ends it
WriteTemporal(m, addr, data) ==
    IF m.l3.non_temporal THEN [m |-> m, res |-> "Ok"]
    ELSE Only({
      IF s3.res # "Ok" \/ m.l2.non_temporal THEN s3
      ELSE Only({
        IF s2.res # "Ok" \/ m.l1.non_temporal THEN s2
        ELSE WriteLevel(s2.m, "l1", addr, data)
        : s2 \in { WriteLevel(s3.m, "l2", addr, data) } })
      : s3 \in { WriteLevel(m, "l3", addr, data) } })

\* Memory::write_to_caches: [m, res], res one of Ok, Err, Panic
write_to_caches(m, addr, data) ==
    LET b == find_region(m.regions, addr)
        offset == addr - m.regions[b].base
    IN  IF b = NoRegion THEN [m |-> m, res |-> "Err"]
        ELSE IF ~can_write(m.regions[b].permissions) THEN [m |-> m, res |-> "Err"]
        ELSE IF offset + Len(data) > m.regions[b].size THEN [m |-> m, res |-> "Err"]
        ELSE WriteTemporal([m EXCEPT !.regions[b].data = CopyInto(@, offset, data)],
                           addr, data)

write_u8(m, addr, value) == write_to_caches(m, addr, <<value>>)

\* read_u16 / read_u32 / read_u64: n successive read_u8 from addr + i,
\* byte i of the value from the i-th read; [m, ok, val]
RECURSIVE ReadLE(_, _, _, _)
ReadLE(m, addr, n, acc) ==
    IF Len(acc) = n THEN [m |-> m, ok |-> TRUE, val |-> acc]
    ELSE Only({ IF ~r.ok THEN [m |-> r.m, ok |-> FALSE, val |-> acc]
                ELSE ReadLE(r.m, addr, n, Append(acc, r.val))
                : r \in { read_u8(m, addr + Len(acc)) } })

read_u16(m, addr) == ReadLE(m, addr, 2, << >>)

read_u32(m, addr) == ReadLE(m, addr, 4, << >>)

read_u64(m, addr) == ReadLE(m, addr, 8, << >>)

\* write_u64: the 8 bytes of the value in one write_to_caches
write_u64(m, addr, value) ==
    write_to_caches(m, addr, [i \in 1..8 |-> value[i]])

\* write_u16 / write_u32: byte i of the value by write_u8 at addr + i, the
\* first failure returned
RECURSIVE WriteLE(_, _, _, _)
WriteLE(m, addr, value, i) ==
    IF i > Len(value) THEN [m |-> m, res |-> "Ok"]
    ELSE Only({ IF w.res # "Ok" THEN w ELSE WriteLE(w.m, addr, value, i + 1)
                : w \in { write_u8(m, addr + (i - 1), value[i]) } })

write_u16(m, addr, value) == WriteLE(m, addr, SubSeq(value, 1, 2), 1)

write_u32(m, addr, value) == WriteLE(m, addr, SubSeq(value, 1, 4), 1)

\* the write-back loop of flush_all_caches over the collected dirty lines
RECURSIVE WriteBack(_, _)
WriteBack(m, dirty) ==
    IF dirty = << >> THEN [m |-> m, res |-> "Ok"]
    ELSE LET b == find_region(m.regions, dirty[1].addr)
             offset == dirty[1].addr - m.regions[b].base
         IN  IF b = NoRegion THEN [m |-> m, res |-> "Err"]
             ELSE IF offset + Len(dirty[1].data) > Len(m.regions[b].data)
             THEN [m |-> m, res |-> "Panic"]
             ELSE WriteBack([m EXCEPT !.regions[b].data =
                                CopyInto(@, offset, dirty[1].data)],
                            Tail(dirty))

\* Memory::flush_all_caches: [m, res]
flush_all_caches(m) ==
    Only({ WriteBack([m EXCEPT !.l1 = f[1].level, !.l2 = f[2].level,
                               !.l3 = f[3].level],
                     f[1].dirty \o f[2].dirty \o f[3].dirty)
           : f \in { <<CacheLevel_flush(m.l1), CacheLevel_flush(m.l2),
                       CacheLevel_flush(m.l3)>> } })

(***************************************************************************)
(* src/src/cpu/mod.rs                                                      *)
(***************************************************************************)

\* the general and predicate registers named by the enumerated instructions
\* (of NUM_GR = 128 and NUM_PR = 64)
GRegs == {0, 1, 2}

PRegs == {0, 1}

\* Cpu::set_gr: a write to r0 is discarded
set_gr(g, index, value) == IF index = 0 THEN g ELSE [g EXCEPT ![index] = value]

\* Cpu::set_pr
set_pr(p, index, value) == [p EXCEPT ![index] = value]

\* `x as u64` of a narrower little-endian value
ZeroExtend(bytes) == bytes \o Zeros(8 - Len(bytes))

(***************************************************************************)
(* src/src/cpu/instructions/memory.rs                                      *)
(***************************************************************************)

\* `self.size as u64`: the discriminant of LoadSize / StoreSize
SizeCode(size) ==
    CASE size = "Byte" -> 0 [] size = "Half" -> 1
      [] size = "Word" -> 2 [] size = "Double" -> 3

\* the number of bytes the access of that size moves
SizeBytes(size) ==
    CASE size = "Byte" -> 1 [] size = "Half" -> 2
      [] size = "Word" -> 4 [] size = "Double" -> 8

\* memory.read_u8 / read_u16 / read_u32 / read_u64 by LoadSize
ReadBySize(m, size, addr) ==
    CASE size = "Byte"   -> ReadLE(m, addr, 1, << >>)
      [] size = "Half"   -> read_u16(m, addr)
      [] size = "Word"   -> read_u32(m, addr)
      [] size = "Double" -> read_u64(m, addr)

\* memory.write_u8(value as u8) / write_u16 / write_u32 / write_u64 by StoreSize
WriteBySize(m, size, addr, value) ==
    CASE size = "Byte"   -> write_u8(m, addr, value[1])
      [] size = "Half"   -> write_u16(m, addr, value)
      [] size = "Word"   -> write_u32(m, addr, value)
      [] size = "Double" -> write_u64(m, addr, value)

\* Load::execute on an instruction i = [qp, dest, addr, size, speculation]
\* with destinations[0] = GR(dest) and Absolute(addr) addressing.
\* Returns the new gr, alat and memory, the result, whether the load ran to
\* its end (executed) and what alat_check_register answered (found).
Load_execute(g, p, entries, m, i) ==
    LET found  == check_register(entries, i.dest, TRUE)
        added  == IF i.speculation = "Advanced"
                  THEN add_entry(entries, i.addr, SizeCode(i.size), i.dest, TRUE)
                  ELSE entries
        after  == IF i.speculation = "CheckClr"
                  THEN invalidate_overlap(added, i.addr, SizeCode(i.size))
                  ELSE added
        same   == [gr |-> g, alat |-> entries, mem |-> m, res |-> "Ok",
                   executed |-> FALSE, found |-> FALSE]
    IN  IF ~p[i.qp] THEN same
        ELSE IF i.speculation \in {"CheckNoClr", "CheckClr"} /\ ~found THEN same
        ELSE Only({
          IF ~r.ok
          THEN [gr |-> g, alat |-> after, mem |-> r.m, res |-> "Err",
                executed |-> FALSE, found |-> found]
          ELSE [gr |-> set_gr(g, i.dest, ZeroExtend(r.val)), alat |-> after,
                mem |-> r.m, res |-> "Ok", executed |-> TRUE, found |-> found]
          : r \in { ReadBySize(m, i.size, i.addr) } })

\* the loop of Store::execute over destinations (all of type GR here)
RECURSIVE InvalidateDestinations(_, _)
InvalidateDestinations(entries, dests) ==
    IF dests = << >> THEN entries
    ELSE InvalidateDestinations(invalidate_overlap(entries, dests[1] * 8, 8),
                                Tail(dests))

\* Store::execute on an instruction i = [qp, src, dests, addr, size] with
\* sources[0] = GR(src) and Absolute(addr) addressing
Store_execute(g, p, entries, m, i) ==
    IF ~p[i.qp]
    THEN [alat |-> entries, mem |-> m, res |-> "Ok", executed |-> FALSE]
    ELSE Only({
      IF w.res # "Ok"
      THEN [alat |-> entries, mem |-> w.m, res |-> w.res, executed |-> FALSE]
      ELSE [alat |-> InvalidateDestinations(entries, i.dests), mem |-> w.m,
            res |-> "Ok", executed |-> TRUE]
      : w \in { WriteBySize(m, i.size, i.addr, g[i.src]) } })

(***************************************************************************)
(* Inputs of the ALAT operations                                           *)
(***************************************************************************)

\* (register, is_integer) pairs: three integer registers and one float
\* register that shares its number with an integer one
Pairs == { <<32, TRUE>>, <<33, TRUE>>, <<34, TRUE>>, <<32, FALSE>> }

\* load addresses: one aligned, one inside another granule
LoadAddrs == { 4096, 4116 }

\* store ranges <<address, size>>: aligned, unaligned, straddling two
\* granules, ending exactly at a granule, empty
StoreRanges == { <<4096, 8>>, <<4100, 8>>, <<4104, 16>>, <<4119, 1>>,
                 <<4120, 8>>, <<4100, 0>> }

NoOp == [op |-> "none", address |-> 0, size |-> 0, flag |-> FALSE]

\* ALAT::new() on its own, as the tests of alat.rs build it: the run
\* constructs no Cpu and no Memory, whose variables stay empty
Init ==
    /\ alat = ALAT_new
    /\ gr = << >>
    /\ pr = << >>
    /\ mem = << >>
    /\ panicked = FALSE
    /\ nops = 0
    /\ shadow = << >>
    /\ writesOnly = TRUE
    /\ last = NoOp
    /\ scn = 0
    /\ rse = << >>
    /\ fresh = {}
    /\ cr = << >>
    /\ RestInit

AddEntry ==
    \E p \in Pairs, a \in LoadAddrs :
        /\ alat' = add_entry(alat, a, 8, p[1], p[2])
        /\ last' = [op |-> "add_entry", address |-> 0, size |-> 0,
                    flag |-> (Len(alat) >= MAX_ALAT_ENTRIES
                              /\ FindPair(alat, p[1], p[2]) = 0)]
        /\ UNCHANGED <<scn, machine>>

InvalidateOverlap ==
    \E r \in StoreRanges :
        /\ alat' = invalidate_overlap(alat, r[1], r[2])
        /\ last' = [op |-> "invalidate_overlap", address |-> r[1], size |-> r[2],
                    flag |-> FALSE]
        /\ UNCHANGED <<scn, machine>>

InvalidateRegister ==
    \E p \in Pairs :
        /\ alat' = invalidate_register(alat, p[1], p[2])
        /\ last' = [NoOp EXCEPT !.op = "invalidate_register"]
        /\ UNCHANGED <<scn, machine>>

UpdateEntryState ==
    \E p \in Pairs, s \in EntryState :
        LET r == update_entry_state(alat, p[1], p[2], s)
        IN  /\ alat' = r.entries
            /\ last' = [NoOp EXCEPT !.op = "update_entry_state", !.flag = r.ok]
            /\ UNCHANGED <<scn, machine>>

RemoveEntry ==
    \E p \in Pairs :
        /\ alat' = remove_entry(alat, p[1], p[2])
        /\ last' = [NoOp EXCEPT !.op = "remove_entry"]
        /\ UNCHANGED <<scn, machine>>

PurgeOldEntries ==
    /\ alat' = purge_old_entries(alat)
    /\ last' = [NoOp EXCEPT !.op = "purge_old_entries",
                            !.flag = (Len(purge_old_entries(alat)) < Len(alat))]
    /\ UNCHANGED <<scn, machine>>

Clear ==
    /\ alat' = clear(alat)
    /\ last' = [NoOp EXCEPT !.op = "clear"]
    /\ UNCHANGED <<scn, machine>>

(***************************************************************************)
(* The literal scenario of test_alat_overlap (alat.rs:294-309), embedded in *)
(* a specification of its own: add_entry and invalidate_overlap over the    *)
(* scenario's registers, addresses and store ranges.  scn counts the steps  *)
(* of the script performed so far from the empty table, -1 once a step      *)
(* leaves the script.                                                       *)
(***************************************************************************)
ScnPairs == { <<32, TRUE>>, <<33, TRUE>>, <<34, TRUE>> }

ScnAddrs == { 4096, 4112, 4128 }

ScnRanges == { <<4104, 16>>, <<4096, 8>> }

ScnAfterAdd(a, p) ==
    IF scn = 0 /\ a = 4096 /\ p = <<32, TRUE>> THEN 1
    ELSE IF scn = 1 /\ a = 4112 /\ p = <<33, TRUE>> THEN 2
    ELSE IF scn = 2 /\ a = 4128 /\ p = <<34, TRUE>> THEN 3
    ELSE -1

ScnAddEntry ==
    \E p \in ScnPairs, a \in ScnAddrs :
        /\ alat' = add_entry(alat, a, 8, p[1], p[2])
        /\ last' = [NoOp EXCEPT !.op = "add_entry"]
        /\ scn' = ScnAfterAdd(a, p)
        /\ UNCHANGED machine

ScnInvalidateOverlap ==
    \E r \in ScnRanges :
        /\ alat' = invalidate_overlap(alat, r[1], r[2])
        /\ last' = [op |-> "invalidate_overlap", address |-> r[1], size |-> r[2],
                    flag |-> FALSE]
        /\ scn' = IF scn = 3 /\ r = <<4104, 16>> THEN 4 ELSE -1
        /\ UNCHANGED machine

ScnNext ==
    \/ ScnAddEntry
    \/ ScnInvalidateOverlap

ScenarioSpec == Init /\ [][ScnNext]_vars

Next ==
    \/ AddEntry
    \/ InvalidateOverlap
    \/ InvalidateRegister
    \/ UpdateEntryState
    \/ RemoveEntry
    \/ PurgeOldEntries
    \/ Clear

Spec == Init /\ [][Next]_vars

(***************************************************************************)
(* The memory manager driven directly, as the tests of memory/mod.rs do:   *)
(* one read/write region mapped, then reads, writes, hint switches and     *)
(* flushes in any order.                                                   *)
(***************************************************************************)

\* the region of the tests, base 0x1000, read/write; its size is scaled from
\* 4096 bytes to a whole number of L3 lines
REGION_BASE == 4096

RegionLines == 3

RegionSize == RegionLines * L3_LINE_SIZE

\* number of operations in a run (the access counters are unbounded)
MaxMemOps == 4

\* 0x1234_5678_9ABC_DEF0, the value of test_memory_speculation
TestValue == <<240, 222, 188, 154, 120, 86, 52, 18>>

\* the distance between two lines of the same L1 set
L1Stride == Pow2(L1SetBits) * L1_LINE_SIZE

\* <<size, address>> of the writes: one byte at offset 1 of the first line
\* and at offset 0 of the next two lines of the same L1 set; 2, 4 and 8
\* bytes at the region base; 8 bytes that end in the next L1 line
WriteInputs ==
    { <<1, REGION_BASE + 1>>,
      <<1, REGION_BASE + L1Stride>>,
      <<1, REGION_BASE + 2 * L1Stride>>,
      <<2, REGION_BASE>>, <<4, REGION_BASE>>, <<8, REGION_BASE>>,
      <<8, REGION_BASE + L1_LINE_SIZE - 4>> }

\* <<size, address>> of the reads
ReadInputs ==
    { <<1, REGION_BASE>>, <<1, REGION_BASE + 1>>,
      <<1, REGION_BASE + 2 * L1Stride + 1>>,
      <<2, REGION_BASE>>, <<4, REGION_BASE>>, <<8, REGION_BASE>> }

CacheHints == {"Normal", "NonTemporal1", "NonTemporalAll", "Bias"}

\* write_u8 / write_u16 / write_u32 / write_u64 of the low bytes of value
WriteSized(m, size, addr, value) ==
    CASE size = 1 -> write_u8(m, addr, value[1])
      [] size = 2 -> write_u16(m, addr, value)
      [] size = 4 -> write_u32(m, addr, value)
      [] size = 8 -> write_u64(m, addr, value)

\* read_u8 / read_u16 / read_u32 / read_u64
ReadSized(m, size, addr) ==
    CASE size = 1 -> ReadLE(m, addr, 1, << >>)
      [] size = 2 -> read_u16(m, addr)
      [] size = 4 -> read_u32(m, addr)
      [] size = 8 -> read_u64(m, addr)

\* Memory::new(); map(0x1000, RegionSize, ReadWrite), as test_memory_access
\* begins; the run constructs no Cpu
MemInit ==
    /\ alat = << >>
    /\ gr = << >>
    /\ pr = << >>
    /\ mem = map(Memory_new, REGION_BASE, RegionSize, "ReadWrite").m
    /\ panicked = FALSE
    /\ nops = 0
    /\ shadow = Zeros(RegionSize)
    /\ writesOnly = TRUE
    /\ last = NoOp
    /\ scn = 0
    /\ rse = << >>
    /\ fresh = {}
    /\ cr = << >>
    /\ RestInit

Write ==
    /\ ~panicked
    /\ nops < MaxMemOps
    /\ \E w \in WriteInputs :
      \E value \in { SubSeq(TestValue, 1, w[1]) },
         r \in { WriteSized(mem, w[1], w[2], TestValue) } :
            /\ mem' = r.m
            /\ panicked' = (r.res = "Panic")
            /\ shadow' = IF r.res = "Ok"
                         THEN CopyInto(shadow, w[2] - REGION_BASE, value)
                         ELSE shadow
            /\ writesOnly' = (writesOnly /\ r.res = "Ok")
            /\ last' = [op |-> "write", address |-> w[2], size |-> w[1],
                        value |-> value, res |-> r.res]
    /\ nops' = nops + 1
    /\ UNCHANGED <<rest, cr, alat, gr, pr, scn, rse, fresh>>

Read ==
    /\ ~panicked
    /\ nops < MaxMemOps
    /\ \E w \in ReadInputs :
      \E r \in { ReadSized(mem, w[1], w[2]) } :
            /\ mem' = r.m
            /\ last' = [op |-> "read", address |-> w[2], size |-> w[1],
                        value |-> r.val, res |-> IF r.ok THEN "Ok" ELSE "Err"]
    /\ nops' = nops + 1
    /\ writesOnly' = FALSE
    /\ UNCHANGED <<rest, cr, alat, gr, pr, scn, panicked, shadow, rse, fresh>>

SetCacheHints ==
    /\ ~panicked
    /\ nops < MaxMemOps
    /\ \E h \in CacheHints :
        /\ mem' = set_cache_hints(mem, h)
        /\ last' = [op |-> "set_cache_hints", hint |-> h]
    /\ nops' = nops + 1
    /\ writesOnly' = FALSE
    /\ UNCHANGED <<rest, cr, alat, gr, pr, scn, panicked, shadow, rse, fresh>>

FlushAllCaches ==
    /\ ~panicked
    /\ nops < MaxMemOps
    /\ \E r \in { flush_all_caches(mem) } :
           /\ mem' = r.m
           /\ panicked' = (r.res = "Panic")
           /\ last' = [op |-> "flush_all_caches", res |-> r.res,
                       afterWrites |-> writesOnly]
    /\ nops' = nops + 1
    /\ writesOnly' = FALSE
    /\ UNCHANGED <<rest, cr, alat, gr, pr, scn, shadow, rse, fresh>>

MemNext ==
    \/ Write
    \/ Read
    \/ SetCacheHints
    \/ FlushAllCaches

MemSpec == MemInit /\ [][MemNext]_vars

(***************************************************************************)
(* Load and Store instructions executed on a Cpu and a Memory, from the    *)
(* state setup_test builds (memory.rs:695-713) with a value in the source  *)
(* register.                                                               *)
(***************************************************************************)

\* number of instructions in a run
MaxCpuOps == 3

\* Absolute(addr) operands: a granule's first byte and a byte inside it
CpuAddrs == { REGION_BASE, REGION_BASE + 4 }

CpuSizes == { "Byte", "Double" }

Speculations == { "None", "Speculative", "Advanced", "CheckNoClr", "CheckClr" }

LoadInstructions ==
    [qp : PRegs, dest : {2}, addr : CpuAddrs, size : CpuSizes,
     speculation : Speculations]

StoreInstructions ==
    [qp : PRegs, src : {1}, dests : { << >>, <<2>> }, addr : CpuAddrs,
     size : CpuSizes]

\* the script of C2 at the region base with 8-byte accesses: 1 after the
\* advanced load, 2 after the store, 3 after the check load
ScriptAfterLoad(i) ==
    IF i.qp # 0 \/ i.addr # REGION_BASE \/ i.size # "Double" THEN -1
    ELSE IF scn = 0 /\ i.speculation = "Advanced" THEN 1
    ELSE IF scn = 2 /\ i.speculation \in {"CheckNoClr", "CheckClr"} THEN 3
    ELSE -1

ScriptAfterStore(i) ==
    IF scn = 1 /\ i.qp = 0 /\ i.addr = REGION_BASE /\ i.size = "Double"
    THEN 2 ELSE -1

\* Cpu::new(); Memory::new(); map(0x1000, RegionSize, ReadWriteExecute);
\* set_pr(0, true); set_gr(1, TestValue)
CpuInit ==
    /\ alat = ALAT_new
    /\ gr = set_gr([r \in GRegs |-> Zeros(8)], 1, TestValue)
    /\ pr = set_pr([p \in PRegs |-> FALSE], 0, TRUE)
    /\ mem = map(Memory_new, REGION_BASE, RegionSize, "ReadWriteExecute").m
    /\ panicked = FALSE
    /\ nops = 0
    /\ shadow = << >>
    /\ writesOnly = TRUE
    /\ last = NoOp
    /\ scn = 0
    /\ rse = << >>
    /\ fresh = {}
    /\ cr = << >>
    /\ RestInit

ExecLoad ==
    /\ ~panicked
    /\ nops < MaxCpuOps
    /\ \E i \in LoadInstructions :
      \E r \in { Load_execute(gr, pr, alat, mem, i) } :
            /\ gr' = r.gr
            /\ alat' = r.alat
            /\ mem' = r.mem
            /\ last' = [op |-> "load", instruction |-> i, res |-> r.res,
                        executed |-> r.executed, found |-> r.found]
            /\ scn' = ScriptAfterLoad(i)
    /\ nops' = nops + 1
    /\ UNCHANGED <<rest, cr, pr, panicked, shadow, writesOnly, rse, fresh>>

ExecStore ==
    /\ ~panicked
    /\ nops < MaxCpuOps
    /\ \E i \in StoreInstructions :
      \E r \in { Store_execute(gr, pr, alat, mem, i) } :
            /\ alat' = r.alat
            /\ mem' = r.mem
            /\ panicked' = (r.res = "Panic")
            /\ last' = [op |-> "store", instruction |-> i, res |-> r.res,
                        executed |-> r.executed, value |-> gr[i.src]]
            /\ scn' = ScriptAfterStore(i)
    /\ nops' = nops + 1
    /\ UNCHANGED <<rest, cr, gr, pr, shadow, writesOnly, rse, fresh>>

CpuNext ==
    \/ ExecLoad
    \/ ExecStore

CpuSpec == CpuInit /\ [][CpuNext]_vars

(***************************************************************************)
(* Properties of the ALAT                                                  *)
(***************************************************************************)

\* the 8-byte-aligned granule of a load address, and byte ranges as sets
Granule(address) == { x \in AlignDown(address)..(AlignDown(address) + 7) : TRUE }

ByteRange(a, n) == a..(a + n - 1)

PairsOf(entries) ==
    { <<entries[k].register, entries[k].is_integer>> : k \in 1..Len(entries) }

\* C3: invalidate_overlap(a, n) turns exactly the Valid entries whose granule
\* intersects [a, a+n) into Invalidated, leaves every other entry's state as
\* it was, and adds, removes or reorders nothing.
C3_InvalidateOverlapExact ==
    [][last'.op = "invalidate_overlap" =>
        /\ Len(alat') = Len(alat)
        /\ \A k \in 1..Len(alat) :
             /\ alat'[k] = [alat[k] EXCEPT !.state = alat'[k].state]
             /\ alat'[k].state =
                  IF /\ alat[k].state = "Valid"
                     /\ Granule(alat[k].address)
                           \cap ByteRange(last'.address, last'.size) # {}
                  THEN "Invalidated"
                  ELSE alat[k].state]_vars

\* C4: after add(0x1000,8,32,int), add(0x1010,8,33,int), add(0x1020,8,34,int)
\* and invalidate_overlap(0x1008,16) on an empty table, registers 32 and 33
\* have no Valid entry and register 34 has one.
C4_OverlapScenario ==
    scn = 4 =>
        /\ ~check_register(alat, 32, TRUE)
        /\ ~check_register(alat, 33, TRUE)
        /\ check_register(alat, 34, TRUE)

\* C5: the table never holds more than MAX_ALAT_ENTRIES entries nor two
\* entries of one (register, is_integer) pair, and adding a pair that is not
\* in a full table drops exactly the oldest entry and appends the new one.
C5_CapacityAndUniqueness ==
    /\ [](/\ Len(alat) <= MAX_ALAT_ENTRIES
          /\ Cardinality(PairsOf(alat)) = Len(alat))
    /\ [][(/\ last'.op = "add_entry"
           /\ Len(alat) = MAX_ALAT_ENTRIES
           /\ Len(alat') > 0
           /\ <<alat'[Len(alat')].register, alat'[Len(alat')].is_integer>>
                 \notin PairsOf(alat))
          => /\ Len(alat') = MAX_ALAT_ENTRIES
             /\ \A k \in 1..(MAX_ALAT_ENTRIES - 1) : alat'[k] = alat[k + 1]
             /\ alat'[MAX_ALAT_ENTRIES].state = "Valid"]_vars

\* a full table has just taken a new pair and dropped its oldest entry
C5_Witness ==
    last.op = "add_entry" /\ last.flag /\ Len(alat) = MAX_ALAT_ENTRIES

\* the entry of pair p was not Valid before the step and the same entry (not
\* one appended by this step's add_entry) is Valid after it
Revalidated(p) ==
    LET k == FindPair(alat, p[1], p[2])
        j == FindPair(alat', p[1], p[2])
    IN  /\ k # 0 /\ alat[k].state # "Valid"
        /\ j # 0 /\ alat'[j].state = "Valid"
        /\ ~(last'.op = "add_entry" /\ j = Len(alat'))

\* C6: an entry's state only moves forward: no ALAT operation makes an entry
\* that is Invalid or Invalidated Valid again.
C6_NoRevalidation ==
    [][\A p \in Pairs : ~Revalidated(p)]_vars

\* C7: purge_old_entries removes exactly the entries that are not Valid,
\* keeps the Valid ones in order, and purging twice equals purging once.
C7_PurgeIdempotent ==
    /\ [](purge_old_entries(purge_old_entries(alat)) = purge_old_entries(alat))
    /\ [][last'.op = "purge_old_entries" =>
            alat' = SelectSeq(alat, LAMBDA e : e.state = "Valid")]_vars

\* a purge has just removed a non-Valid entry and kept a Valid one
C7_Witness ==
    last.op = "purge_old_entries" /\ last.flag /\ Len(alat) > 0

(***************************************************************************)
(* Memory manager properties (MemSpec)                                     *)
(***************************************************************************)

\* the bytes the latest successful writes left at [address, address + size)
Written(address, size) ==
    SubSeq(shadow, (address - REGION_BASE) + 1, (address - REGION_BASE) + size)

\* the byte a read_u8 of the address returns in memory state m
Visible(m, address) == read_u8(m, address).val

RegionAddrs == REGION_BASE .. (REGION_BASE + RegionSize - 1)

\* C8: a write of 1, 2, 4 or 8 bytes that lies inside the read/write region
\* completes, and a read of the same size at the same address directly after
\* it returns the value written (so read_u8 after write_u64 returns the low
\* byte), whatever the cache state and the hint setting.
C8_WriteThenReadBack ==
    (last.op = "write") =>
        /\ ~panicked
        /\ last.res = "Ok"
        /\ ReadSized(mem, last.size, last.address).ok
        /\ ReadSized(mem, last.size, last.address).val = last.value
        /\ Visible(mem, last.address) = last.value[1]

\* C9: the caches are transparent: every read returns, byte for byte, what
\* the most recent write left there, or 0 where nothing was written.
C9_CacheTransparent ==
    (last.op = "read") =>
        /\ last.res = "Ok"
        /\ last.value = Written(last.address, last.size)

\* C10: after a sequence of writes, flush_all_caches succeeds, every byte
\* read after it is the byte last written there, and the flush changes the
\* value visible at no address.
C10_FlushKeepsValues ==
    [][(last'.op = "flush_all_caches" /\ last'.afterWrites) =>
          /\ last'.res = "Ok"
          /\ \A a \in RegionAddrs :
                /\ Visible(mem', a) = shadow[(a - REGION_BASE) + 1]
                /\ Visible(mem', a) = Visible(mem, a)]_vars

(***************************************************************************)
(* Load / Store properties (CpuSpec)                                       *)
(***************************************************************************)

C2_CheckDetectsStore ==
    (scn = 3) =>
        /\ ~last.found
        /\ gr[last.instruction.dest] = TestValue

(***************************************************************************)
(* src/src/cpu/rse.rs                                                      *)
(***************************************************************************)

RSEMode == {"Enforced", "Eager", "Lazy"}

\* u32::saturating_sub
saturating_sub(a, b) == IF a > b THEN a - b ELSE 0

\* u32::min
Min(a, b) == IF a < b THEN a ELSE b

\* (address >> 3) & 0x3F, the slot of the address in its group of 64
Slot(address) == (address \div 8) % 64

\* RSE::new(); config holds the mode alone
RSE_new ==
    [mode |-> "Lazy", bsp |-> 0, bspstore |-> 0, rnat |-> Zeros(8),
     dirty_count |-> 0, clean_count |-> 0, invalid_count |-> 0]

\* the error of a failed memory write: a MemoryError, or the panic
WriteError(res) == IF res = "Panic" THEN "Panic" ELSE "MemoryError"

\* allocate_registers drawing on the invalid registers before the clean ones
allocate_registers_invalid_first(r, count) ==
    LET invalid_to_use == Min(count, r.invalid_count)
        remaining == count - invalid_to_use
    IN  IF remaining > r.clean_count
        THEN [rse |-> r, res |-> "RSEError"]
        ELSE [rse |-> [r EXCEPT !.invalid_count = @ - invalid_to_use,
                                !.clean_count = @ - remaining,
                                !.dirty_count = @ + count],
              res |-> "Ok"]

\* the loop of RSE::spill_registers, n registers to go: [rse, mem, res]
RECURSIVE SpillLoop(_, _, _)
SpillLoop(r, m, n) ==
    IF n = 0 THEN [rse |-> r, mem |-> m, res |-> "Ok"]
    ELSE Only({
      IF w.res # "Ok" THEN [rse |-> r, mem |-> w.m, res |-> WriteError(w.res)]
      ELSE IF Slot(r.bspstore) = 63
      THEN Only({
             IF w2.res # "Ok"
             THEN [rse |-> r, mem |-> w2.m, res |-> WriteError(w2.res)]
             ELSE SpillLoop([r EXCEPT !.bspstore = @ + 16,
                                      !.dirty_count = @ - 1,
                                      !.clean_count = @ + 1], w2.m, n - 1)
             : w2 \in { write_u64(w.m, r.bspstore + 8, r.rnat) } })
      ELSE SpillLoop([r EXCEPT !.bspstore = @ + 8,
                               !.dirty_count = @ - 1,
                               !.clean_count = @ + 1], w.m, n - 1)
      : w \in { write_u64(m, r.bspstore, Zeros(8)) } })

\* RSE::spill_registers: [rse, mem, res]
spill_registers(r, m, count) ==
    IF count > r.dirty_count THEN [rse |-> r, mem |-> m, res |-> "RSEError"]
    ELSE SpillLoop(r, m, count)

\* the loop of RSE::fill_registers, n registers to go: [rse, mem, res]
RECURSIVE FillLoop(_, _, _)
FillLoop(r, m, n) ==
    IF n = 0 THEN [rse |-> r, mem |-> m, res |-> "Ok"]
    ELSE Only({
      IF ~v.ok THEN [rse |-> r, mem |-> v.m, res |-> "MemoryError"]
      ELSE IF Slot(r.bsp) = 63
      THEN Only({
             IF ~v2.ok THEN [rse |-> r, mem |-> v2.m, res |-> "MemoryError"]
             ELSE FillLoop([r EXCEPT !.rnat = v2.val,
                                     !.bsp = @ + 16,
                                     !.invalid_count = @ - 1,
                                     !.clean_count = @ + 1], v2.m, n - 1)
             : v2 \in { read_u64(v.m, r.bsp + 8) } })
      ELSE FillLoop([r EXCEPT !.bsp = @ + 8,
                              !.invalid_count = @ - 1,
                              !.clean_count = @ + 1], v.m, n - 1)
      : v \in { read_u64(m, r.bsp) } })

\* RSE::fill_registers: [rse, mem, res]
fill_registers(r, m, count) ==
    IF count > r.invalid_count THEN [rse |-> r, mem |-> m, res |-> "RSEError"]
    ELSE FillLoop(r, m, count)

\* RSE::flush
RSE_flush(r, m) == spill_registers(r, m, r.dirty_count)

\* RSE::invalidate
RSE_invalidate(r) ==
    [r EXCEPT !.invalid_count = @ + r.clean_count, !.clean_count = 0]

\* RSE::allocate_registers: [rse, res]; the clean registers taken stay taken
\* when the invalid ones do not suffice
allocate_registers(r, count) ==
    LET clean_to_use == Min(count, r.clean_count)
        r1 == [r EXCEPT !.clean_count = @ - clean_to_use,
                        !.dirty_count = @ + clean_to_use]
        remaining == count - clean_to_use
    IN  IF remaining > r1.invalid_count
        THEN [rse |-> r1, res |-> "RSEError"]
        ELSE [rse |-> [r1 EXCEPT !.invalid_count = @ - remaining,
                                 !.dirty_count = @ + remaining],
              res |-> "Ok"]

\* RSE::deallocate_registers: [rse, mem, res]
deallocate_registers(r, m, count) ==
    CASE r.mode = "Lazy" ->
           LET dirty == saturating_sub(r.dirty_count, count)
           IN  [rse |-> [r EXCEPT
                    !.dirty_count = dirty,
                    !.clean_count = saturating_sub(@, saturating_sub(count, dirty)),
                    !.invalid_count = @ + count],
                mem |-> m, res |-> "Ok"]
      [] r.mode = "Eager" ->
           LET to_spill == Min(count, r.dirty_count)
               remaining == count - to_spill
           IN  Only({
                 IF sp.res # "Ok" THEN sp
                 ELSE [rse |-> [sp.rse EXCEPT
                          !.clean_count = saturating_sub(@, remaining),
                          !.invalid_count = @ + remaining],
                       mem |-> sp.mem, res |-> "Ok"]
                 : sp \in { spill_registers(r, m, to_spill) } })
      [] r.mode = "Enforced" ->
           Only({
             IF sp.res # "Ok" THEN sp
             ELSE [rse |-> [sp.rse EXCEPT
                      !.clean_count = saturating_sub(@,
                          saturating_sub(count, sp.rse.dirty_count)),
                      !.invalid_count = @ + count],
                   mem |-> sp.mem, res |-> "Ok"]
             : sp \in { spill_registers(r, m, r.dirty_count) } })

(***************************************************************************)
(* Memory with regions mapped and unmapped during the run:                 *)
(* src/src/memory/mod.rs, Memory::map, Memory::unmap and the accesses      *)
(***************************************************************************)

\* number of operations in a run
MaxMapOps == 5

\* a region shorter than a cache line
HalfLine == L1_LINE_SIZE \div 2

\* <<base, size>> of the regions: one of half a line and one of a whole line
\* at the base of the tests, one of half a line in the second half of that
\* line
MapRanges ==
    { <<REGION_BASE, HalfLine>>, <<REGION_BASE, 2 * HalfLine>>,
      <<REGION_BASE + HalfLine, HalfLine>> }

MapPermissions == {"None", "Read", "ReadExecute", "ReadWrite"}

\* <<size, address>> of the accesses: a byte at either base, two bytes that
\* end in the second half of the line
MapAccesses ==
    { <<1, REGION_BASE>>, <<1, REGION_BASE + HalfLine>>,
      <<2, REGION_BASE + HalfLine - 1>> }

\* the bases of the mapped regions that hold the address
RegionsAt(m, address) ==
    { b \in DOMAIN m.regions :
        address >= b /\ address < b + m.regions[b].size }

\* no mapped region that holds the address grants the access
Denied(m, op, address) ==
    \A b \in RegionsAt(m, address) :
        IF op = "read"
        THEN m.regions[b].permissions \in {"None"}
        ELSE m.regions[b].permissions \in {"None", "Read", "ReadExecute"}

\* Memory::new()
MapInit ==
    /\ alat = << >>
    /\ gr = << >>
    /\ pr = << >>
    /\ mem = Memory_new
    /\ panicked = FALSE
    /\ nops = 0
    /\ shadow = << >>
    /\ writesOnly = TRUE
    /\ last = NoOp
    /\ scn = 0
    /\ rse = << >>
    /\ fresh = {}
    /\ cr = << >>
    /\ RestInit

MapRegion ==
    /\ ~panicked
    /\ nops < MaxMapOps
    /\ \E w \in MapRanges, p \in MapPermissions :
      \E r \in { map(mem, w[1], w[2], p) } :
            /\ mem' = r.m
            /\ fresh' = IF r.res = "Ok" THEN fresh \cup {w[1]} ELSE fresh
            /\ last' = [op |-> "map", address |-> w[1], size |-> w[2],
                        res |-> r.res, unchanged |-> (r.m = mem)]
    /\ nops' = nops + 1
    /\ UNCHANGED <<rest, cr, alat, gr, pr, scn, panicked, shadow, writesOnly, rse>>

UnmapRegion ==
    /\ ~panicked
    /\ nops < MaxMapOps
    /\ \E w \in MapRanges :
      \E r \in { unmap(mem, w[1]) } :
            /\ mem' = r.m
            /\ fresh' = IF r.res = "Ok" THEN fresh \ {w[1]} ELSE fresh
            /\ last' = [op |-> "unmap", address |-> w[1], size |-> 0,
                        res |-> r.res, unchanged |-> (r.m = mem)]
    /\ nops' = nops + 1
    /\ UNCHANGED <<rest, cr, alat, gr, pr, scn, panicked, shadow, writesOnly, rse>>

RegionWrite ==
    /\ ~panicked
    /\ nops < MaxMapOps
    /\ \E w \in MapAccesses :
      \E r \in { WriteSized(mem, w[1], w[2], TestValue) } :
            /\ mem' = r.m
            /\ panicked' = (r.res = "Panic")
            /\ fresh' = { b \in fresh :
                            \A a \in w[2] .. (w[2] + w[1] - 1) :
                                b \notin RegionsAt(mem, a) }
            /\ last' = [op |-> "write", address |-> w[2], size |-> w[1],
                        value |-> SubSeq(TestValue, 1, w[1]), res |-> r.res,
                        denied |-> Denied(mem, "write", w[2]),
                        unchanged |-> (r.m = mem)]
    /\ nops' = nops + 1
    /\ UNCHANGED <<rest, cr, alat, gr, pr, scn, shadow, writesOnly, rse>>

RegionRead ==
    /\ ~panicked
    /\ nops < MaxMapOps
    /\ \E w \in MapAccesses :
      \E r \in { ReadSized(mem, w[1], w[2]) } :
            /\ mem' = r.m
            /\ last' = [op |-> "read", address |-> w[2], size |-> w[1],
                        value |-> r.val, res |-> IF r.ok THEN "Ok" ELSE "Err",
                        denied |-> Denied(mem, "read", w[2]),
                        unchanged |-> (r.m = mem)]
    /\ nops' = nops + 1
    /\ UNCHANGED <<rest, cr, alat, gr, pr, scn, panicked, shadow, writesOnly, rse, fresh>>

RegionFlush ==
    /\ ~panicked
    /\ nops < MaxMapOps
    /\ \E r \in { flush_all_caches(mem) } :
           /\ mem' = r.m
           /\ panicked' = (r.res = "Panic")
           /\ last' = [op |-> "flush_all_caches", address |-> 0, size |-> 0,
                       res |-> r.res, unchanged |-> (r.m = mem)]
    /\ nops' = nops + 1
    /\ UNCHANGED <<rest, cr, alat, gr, pr, scn, shadow, writesOnly, rse, fresh>>

MapNext ==
    \/ MapRegion
    \/ UnmapRegion
    \/ RegionWrite
    \/ RegionRead
    \/ RegionFlush

MapSpec == MapInit /\ [][MapNext]_vars

(***************************************************************************)
(* The register stack engine over a memory: src/src/cpu/rse.rs              *)
(***************************************************************************)

\* the largest counter value of an initial state
MaxCount == 2

\* number of RSE operations in a run
MaxRseOps == 2

\* the register counts passed to the operations
RseCounts == 0 .. (MaxCount + 1)

\* the backing store: 66 slots of 8 bytes from 0x1000, the address of the
\* tests of rse.rs
RseStoreSize == 66 * 8

\* the slot next to the last one of a group of 64
RseStart == REGION_BASE + 62 * 8

\* Memory::new(), and the same with the backing store mapped
RseMemories ==
    { Memory_new, map(Memory_new, REGION_BASE, RseStoreSize, "ReadWrite").m }

RseNoOp == [op |-> "none", count |-> 0, res |-> "Ok", before |-> RSE_new]

\* no operation yet
RseNoRecord ==
    [op |-> "none", count |-> 0, res |-> "Ok", before |-> RSE_new,
     prev |-> RseNoOp]

\* the latest operation, the RSE it began with, and the operation before it
RseRecord(op, count, res) ==
    [op |-> op, count |-> count, res |-> res, before |-> rse,
     prev |-> [op |-> last.op, count |-> last.count, res |-> last.res,
               before |-> last.before]]

\* RSE::new() and Memory::new(); set_config; the counters and the two
\* pointers assigned as the tests of rse.rs assign them
RseInit ==
    /\ alat = << >>
    /\ gr = << >>
    /\ pr = << >>
    /\ mem \in RseMemories
    /\ panicked = FALSE
    /\ nops = 0
    /\ shadow = << >>
    /\ writesOnly = TRUE
    /\ last = RseNoRecord
    /\ scn = 0
    /\ \E mode \in RSEMode, d, c, i \in 0..MaxCount :
          rse = [RSE_new EXCEPT !.mode = mode, !.bsp = RseStart,
                                !.bspstore = RseStart, !.dirty_count = d,
                                !.clean_count = c, !.invalid_count = i]
    /\ fresh = {}
    /\ cr = << >>
    /\ RestInit

AllocateRegisters ==
    /\ ~panicked
    /\ nops < MaxRseOps
    /\ \E k \in RseCounts :
      \E r \in { allocate_registers(rse, k) } :
            /\ rse' = r.rse
            /\ last' = RseRecord("allocate", k, r.res)
    /\ nops' = nops + 1
    /\ UNCHANGED <<rest, cr, alat, gr, pr, mem, panicked, shadow, writesOnly, scn, fresh>>

DeallocateRegisters ==
    /\ ~panicked
    /\ nops < MaxRseOps
    /\ \E k \in RseCounts :
      \E r \in { deallocate_registers(rse, mem, k) } :
            /\ rse' = r.rse
            /\ mem' = r.mem
            /\ panicked' = (r.res = "Panic")
            /\ last' = RseRecord("deallocate", k, r.res)
    /\ nops' = nops + 1
    /\ UNCHANGED <<rest, cr, alat, gr, pr, shadow, writesOnly, scn, fresh>>

SpillRegisters ==
    /\ ~panicked
    /\ nops < MaxRseOps
    /\ \E k \in RseCounts :
      \E r \in { spill_registers(rse, mem, k) } :
            /\ rse' = r.rse
            /\ mem' = r.mem
            /\ panicked' = (r.res = "Panic")
            /\ last' = RseRecord("spill", k, r.res)
    /\ nops' = nops + 1
    /\ UNCHANGED <<rest, cr, alat, gr, pr, shadow, writesOnly, scn, fresh>>

FillRegisters ==
    /\ ~panicked
    /\ nops < MaxRseOps
    /\ \E k \in RseCounts :
      \E r \in { fill_registers(rse, mem, k) } :
            /\ rse' = r.rse
            /\ mem' = r.mem
            /\ last' = RseRecord("fill", k, r.res)
    /\ nops' = nops + 1
    /\ UNCHANGED <<rest, cr, alat, gr, pr, panicked, shadow, writesOnly, scn, fresh>>

RseFlush ==
    /\ ~panicked
    /\ nops < MaxRseOps
    /\ \E r \in { RSE_flush(rse, mem) } :
            /\ rse' = r.rse
            /\ mem' = r.mem
            /\ panicked' = (r.res = "Panic")
            /\ last' = RseRecord("flush", rse.dirty_count, r.res)
    /\ nops' = nops + 1
    /\ UNCHANGED <<rest, cr, alat, gr, pr, shadow, writesOnly, scn, fresh>>

RseInvalidate ==
    /\ ~panicked
    /\ nops < MaxRseOps
    /\ rse' = RSE_invalidate(rse)
    /\ last' = RseRecord("invalidate", 0, "Ok")
    /\ nops' = nops + 1
    /\ UNCHANGED <<rest, cr, alat, gr, pr, mem, panicked, shadow, writesOnly, scn, fresh>>

RseNext ==
    \/ AllocateRegisters
    \/ DeallocateRegisters
    \/ SpillRegisters
    \/ FillRegisters
    \/ RseFlush
    \/ RseInvalidate

RseSpec == RseInit /\ [][RseNext]_vars

\* test_rse_rnat: dirty_count = 63 and bspstore = 0x1000 assigned to a new
\* RSE, then one spill_registers
RnatInit ==
    /\ alat = << >>
    /\ gr = << >>
    /\ pr = << >>
    /\ mem \in RseMemories
    /\ panicked = FALSE
    /\ nops = 0
    /\ shadow = << >>
    /\ writesOnly = TRUE
    /\ last = RseNoRecord
    /\ scn = 0
    /\ rse = [RSE_new EXCEPT !.bspstore = REGION_BASE, !.dirty_count = 63]
    /\ fresh = {}
    /\ cr = << >>
    /\ RestInit

RnatSpill ==
    /\ ~panicked
    /\ nops < 1
    /\ \E k \in 1..63 :
      \E r \in { spill_registers(rse, mem, k) } :
            /\ rse' = r.rse
            /\ mem' = r.mem
            /\ panicked' = (r.res = "Panic")
            /\ last' = RseRecord("spill", k, r.res)
    /\ nops' = nops + 1
    /\ UNCHANGED <<rest, cr, alat, gr, pr, shadow, writesOnly, scn, fresh>>

RnatNext == RnatSpill

RnatSpec == RnatInit /\ [][RnatNext]_vars

(***************************************************************************)
(* The control register moves: src/src/cpu/registers/cr.rs and             *)
(* src/src/cpu/instructions/system.rs                                      *)
(***************************************************************************)

\* CRIndex::PSR
CR_PSR == 0

\* CRIndex::ITM
CR_ITM == 1

\* CRIndex::TPR
CR_TPR == 65

\* the control registers of the file that the runs name (of NUM_CR = 128):
\* one for each arm of CRFile::write
CRIndices == {CR_PSR, CR_ITM, CR_TPR}

\* the bit of PSRFlags::SECURE, 1 << 1
SECURE_BIT == 1

\* bit n of a little-endian value
Bit(value, n) == (value[(n \div 8) + 1] \div Pow2(n % 8)) % 2 = 1

\* CRFile::new
CRFile_new == [i \in CRIndices |-> Zeros(8)]

\* CRFile::read
CRFile_read(c, index) == c[index]

\* CRFile::bits
CRFile_bits(c) == c[0]

\* CRFile::contains of a single flag
CRFile_contains(c, flag) == Bit(CRFile_bits(c), flag)

\* CRFile::update(|_| value)
CRFile_update(c, value) == [c EXCEPT ![0] = value]

\* `a & b` of two bytes
RECURSIVE AndBits(_, _)
AndBits(a, b) ==
    IF a = 0 \/ b = 0 THEN 0
    ELSE (a % 2) * (b % 2) + 2 * AndBits(a \div 2, b \div 2)

\* `x & y`, `!x` and `x | y` of u64 values
BitAnd(x, y) == [i \in 1..8 |-> AndBits(x[i], y[i])]

BitNot(x) == [i \in 1..8 |-> 255 - x[i]]

BitOr(x, y) == BitNot(BitAnd(BitNot(x), BitNot(y)))

\* the mask of CRFile::write for the PSR, 0x0000_FFFF_FFFF_FFFF
PSR_WRITE_MASK == <<255, 255, 255, 255, 255, 255, 0, 0>>

\* the mask of CRFile::write for the TPR, 0x0000_0000_0000_FFFF
TPR_WRITE_MASK == <<255, 255, 0, 0, 0, 0, 0, 0>>

\* CRFile::write (always Ok)
CRFile_write(c, index, value) ==
    IF index = CR_PSR
    THEN [c EXCEPT ![index] = BitOr(BitAnd(c[index], BitNot(PSR_WRITE_MASK)),
                                    BitAnd(value, PSR_WRITE_MASK))]
    ELSE IF index = CR_TPR
    THEN [c EXCEPT ![index] = BitOr(BitAnd(c[index], BitNot(TPR_WRITE_MASK)),
                                    BitAnd(value, TPR_WRITE_MASK))]
    ELSE [c EXCEPT ![index] = value]

\* PSR_USER_MASK, 0x4F
PSR_USER_MASK == <<79, 0, 0, 0, 0, 0, 0, 0>>

\* system::mov_to_cr: [gr, cr, res]
mov_to_cr(g, c, fields) ==
    IF fields.sources = << >> THEN [gr |-> g, cr |-> c, res |-> "Ok"]
    ELSE [gr |-> g, cr |-> CRFile_update(c, g[fields.sources[1]]), res |-> "Ok"]

\* system::mov_from_cr: [gr, cr, res]; the register is assigned in the array
mov_from_cr(g, c, fields) ==
    IF fields.destinations = << >> THEN [gr |-> g, cr |-> c, res |-> "Ok"]
    ELSE [gr |-> [g EXCEPT ![fields.destinations[1]] = CRFile_bits(c)],
          cr |-> c, res |-> "Ok"]

\* system::mov_from_psr: [gr, cr, res]; the register is assigned in the array
mov_from_psr(g, c, r1) ==
    IF ~Bit(CRFile_read(c, CR_PSR), SECURE_BIT)
    THEN [gr |-> g, cr |-> c, res |-> "PrivilegeViolation"]
    ELSE [gr |-> [g EXCEPT ![r1] = CRFile_read(c, CR_PSR)], cr |-> c, res |-> "Ok"]

\* MoveFromPsr::execute: [gr, cr, res]; the register is set by set_gr
MoveFromPsr_execute(g, c, fields) ==
    IF ~CRFile_contains(c, SECURE_BIT)
    THEN [gr |-> g, cr |-> c, res |-> "ExecutionError"]
    ELSE [gr |-> set_gr(g, fields.destinations[1], CRFile_read(c, CR_PSR)),
          cr |-> c, res |-> "Ok"]

\* PSRFlags::bits of the flag at bit n
FlagBits(n) == [i \in 1..8 |-> IF i = (n \div 8) + 1 THEN Pow2(n % 8) ELSE 0]

\* MoveToPsr::execute: [gr, cr, res]; qp is not read
MoveToPsr_execute(g, c, fields) ==
    IF ~CRFile_contains(c, SECURE_BIT)
    THEN [gr |-> g, cr |-> c, res |-> "ExecutionError"]
    ELSE [gr |-> g,
          cr |-> CRFile_write(c, CR_PSR,
                    BitOr(BitAnd(CRFile_read(c, CR_PSR), BitNot(PSR_USER_MASK)),
                          BitAnd(g[fields.sources[1]], PSR_USER_MASK))),
          res |-> "Ok"]

\* Rfi::execute: [gr, cr, res]
Rfi_execute(g, c, fields) == [gr |-> g, cr |-> c, res |-> "ExecutionError"]

\* system::mov_to_psr: [gr, cr, res]
mov_to_psr(g, c, r2) ==
    IF ~Bit(CRFile_read(c, CR_PSR), SECURE_BIT)
    THEN [gr |-> g, cr |-> c, res |-> "PrivilegeViolation"]
    ELSE [gr |-> g,
          cr |-> CRFile_write(c, CR_PSR,
                    BitOr(BitAnd(CRFile_read(c, CR_PSR),
                                 BitNot(BitOr(FlagBits(SECURE_BIT), PSR_USER_MASK))),
                          BitAnd(g[r2], BitOr(FlagBits(SECURE_BIT), PSR_USER_MASK)))),
          res |-> "Ok"]

\* system::rum: [gr, cr, res]
rum(g, c, fields) ==
    IF fields.sources = << >> THEN [gr |-> g, cr |-> c, res |-> "Ok"]
    ELSE [gr |-> g,
          cr |-> CRFile_write(c, CR_PSR,
                    BitAnd(CRFile_read(c, CR_PSR),
                           BitNot(BitAnd(g[fields.sources[1]], PSR_USER_MASK)))),
          res |-> "Ok"]

\* system::sum: [gr, cr, res]
sum(g, c, fields) ==
    IF fields.sources = << >> THEN [gr |-> g, cr |-> c, res |-> "Ok"]
    ELSE [gr |-> g,
          cr |-> CRFile_write(c, CR_PSR,
                    BitOr(CRFile_read(c, CR_PSR),
                          BitAnd(g[fields.sources[1]], PSR_USER_MASK))),
          res |-> "Ok"]

\* system::xum: [gr, cr, res]; (psr & !mask) | (mask & psr)
xum(g, c, fields) ==
    IF fields.sources = << >> THEN [gr |-> g, cr |-> c, res |-> "Ok"]
    ELSE [gr |-> g,
          cr |-> CRFile_write(c, CR_PSR,
                    BitOr(BitAnd(CRFile_read(c, CR_PSR),
                                 BitNot(BitAnd(g[fields.sources[1]], PSR_USER_MASK))),
                          BitAnd(BitAnd(g[fields.sources[1]], PSR_USER_MASK),
                                 CRFile_read(c, CR_PSR)))),
          res |-> "Ok"]

\* system::ssm: [gr, cr, res]
ssm(g, c, fields) ==
    IF fields.immediate = << >> THEN [gr |-> g, cr |-> c, res |-> "Ok"]
    ELSE [gr |-> g,
          cr |-> CRFile_write(c, CR_PSR,
                    BitOr(CRFile_read(c, CR_PSR),
                          BitAnd(fields.immediate, PSR_USER_MASK))),
          res |-> "Ok"]

\* system::rsm: [gr, cr, res]
rsm(g, c, fields) ==
    IF fields.immediate = << >> THEN [gr |-> g, cr |-> c, res |-> "Ok"]
    ELSE [gr |-> g,
          cr |-> CRFile_write(c, CR_PSR,
                    BitAnd(CRFile_read(c, CR_PSR),
                           BitNot(BitAnd(fields.immediate, PSR_USER_MASK)))),
          res |-> "Ok"]

\* number of register operations in a run
MaxGrOps == 3

\* PSRFlags::SECURE.bits(), the PSR of setup_test
SecureValue == <<2, 0, 0, 0, 0, 0, 0, 0>>

\* the values given to set_gr
GrValues == {Zeros(8), SecureValue, TestValue}

\* the fields of a move: at most one source and one destination register
MoveFields ==
    [sources : {<< >>} \cup {<<r>> : r \in GRegs},
     destinations : {<<r>> : r \in GRegs}]

\* Cpu::new()
GrInit ==
    /\ alat = ALAT_new
    /\ gr = [r \in GRegs |-> Zeros(8)]
    /\ pr = [p \in PRegs |-> FALSE]
    /\ mem = Memory_new
    /\ panicked = FALSE
    /\ nops = 0
    /\ shadow = << >>
    /\ writesOnly = TRUE
    /\ last = [op |-> "none", reg |-> 0, res |-> "Ok"]
    /\ scn = 0
    /\ rse = RSE_new
    /\ fresh = {}
    /\ cr = CRFile_new
    /\ RestInit

SetGr ==
    /\ nops < MaxGrOps
    /\ \E r \in GRegs, v \in GrValues :
        /\ gr' = set_gr(gr, r, v)
        /\ last' = [op |-> "set_gr", reg |-> r, res |-> "Ok"]
    /\ nops' = nops + 1
    /\ UNCHANGED <<rest, cr, alat, pr, mem, panicked, shadow, writesOnly, scn, rse, fresh>>

MovToCr ==
    /\ nops < MaxGrOps
    /\ \E f \in MoveFields :
      \E r \in { mov_to_cr(gr, cr, f) } :
        /\ cr' = r.cr
        /\ last' = [op |-> "mov_to_cr", reg |-> 0, res |-> r.res]
    /\ nops' = nops + 1
    /\ UNCHANGED <<rest, gr, alat, pr, mem, panicked, shadow, writesOnly, scn, rse, fresh>>

MovFromCr ==
    /\ nops < MaxGrOps
    /\ \E f \in MoveFields :
      \E r \in { mov_from_cr(gr, cr, f) } :
        /\ gr' = r.gr
        /\ last' = [op |-> "mov_from_cr", reg |-> f.destinations[1], res |-> r.res]
    /\ nops' = nops + 1
    /\ UNCHANGED <<rest, cr, alat, pr, mem, panicked, shadow, writesOnly, scn, rse, fresh>>

MovFromPsr ==
    /\ nops < MaxGrOps
    /\ \E r1 \in GRegs :
      \E r \in { mov_from_psr(gr, cr, r1) } :
        /\ gr' = r.gr
        /\ last' = [op |-> "mov_from_psr", reg |-> r1, res |-> r.res]
    /\ nops' = nops + 1
    /\ UNCHANGED <<rest, cr, alat, pr, mem, panicked, shadow, writesOnly, scn, rse, fresh>>

MoveFromPsrExecute ==
    /\ nops < MaxGrOps
    /\ \E f \in MoveFields :
      \E r \in { MoveFromPsr_execute(gr, cr, f) } :
        /\ gr' = r.gr
        /\ last' = [op |-> "MoveFromPsr", reg |-> f.destinations[1], res |-> r.res]
    /\ nops' = nops + 1
    /\ UNCHANGED <<rest, cr, alat, pr, mem, panicked, shadow, writesOnly, scn, rse, fresh>>

GrNext ==
    \/ SetGr
    \/ MovToCr
    \/ MovFromCr
    \/ MovFromPsr
    \/ MoveFromPsrExecute

GrSpec == GrInit /\ [][GrNext]_vars

(***************************************************************************)
(* The system instructions on a Cpu: src/src/cpu/instructions/system.rs    *)
(***************************************************************************)

\* number of operations in a run
MaxSysOps == 3

\* PSRFlags::UM | PSRFlags::SECURE with bits 48 and 63 set as well
HighValue == <<3, 0, 0, 0, 0, 0, 1, 128>>

\* the values given to registers and immediates
SysValues == {Zeros(8), SecureValue, PSR_USER_MASK, HighValue}

\* InstructionFields: qp, at most one GR source, one GR destination and an
\* optional immediate (<< >> is None)
SysFields ==
    [qp : PRegs,
     sources : {<< >>} \cup {<<r>> : r \in GRegs},
     destinations : {<<r>> : r \in GRegs},
     immediate : {<< >>} \cup SysValues]

\* the fields of an instruction that reads a source register
SourceFields ==
    { f \in SysFields : f.destinations = <<0>> /\ f.immediate = << >> }

\* the fields of an instruction that writes a destination register
DestFields == { f \in SysFields : f.sources = << >> /\ f.immediate = << >> }

\* the fields of an instruction that reads its immediate
ImmFields == { f \in SysFields : f.sources = << >> /\ f.destinations = <<0>> }

\* Cpu::new()
SysInit ==
    /\ alat = ALAT_new
    /\ gr = [r \in GRegs |-> Zeros(8)]
    /\ pr = [p \in PRegs |-> FALSE]
    /\ mem = Memory_new
    /\ panicked = FALSE
    /\ nops = 0
    /\ shadow = << >>
    /\ writesOnly = TRUE
    /\ last = [op |-> "none", qp |-> 0, res |-> "Ok"]
    /\ scn = 0
    /\ rse = RSE_new
    /\ fresh = {}
    /\ cr = CRFile_new
    /\ RestInit

\* Cpu::set_gr(reg, value)
SysSetGr ==
    /\ nops < MaxSysOps
    /\ \E r \in GRegs, v \in SysValues :
        /\ gr' = set_gr(gr, r, v)
        /\ last' = [op |-> "set_gr", qp |-> 0, res |-> "Ok"]
    /\ nops' = nops + 1
    /\ UNCHANGED <<rest, cr, pr, alat, mem, panicked, shadow, writesOnly, scn, rse, fresh>>

\* Cpu::set_pr(reg, value)
SysSetPr ==
    /\ nops < MaxSysOps
    /\ \E r \in PRegs, v \in BOOLEAN :
        /\ pr' = set_pr(pr, r, v)
        /\ last' = [op |-> "set_pr", qp |-> r, res |-> "Ok"]
    /\ nops' = nops + 1
    /\ UNCHANGED <<rest, cr, gr, alat, mem, panicked, shadow, writesOnly, scn, rse, fresh>>

\* cpu.system_regs.cr.write(index, value)
CrWrite ==
    /\ nops < MaxSysOps
    /\ \E index \in CRIndices, v \in SysValues :
        /\ cr' = CRFile_write(cr, index, v)
        /\ last' = [op |-> "write", qp |-> 0, res |-> "Ok"]
    /\ nops' = nops + 1
    /\ UNCHANGED <<rest, gr, pr, alat, mem, panicked, shadow, writesOnly, scn, rse, fresh>>

\* the effect of one instruction with fields f and outcome r = [gr, cr, res]
SysStep(op, f, r) ==
    /\ gr' = r.gr
    /\ cr' = r.cr
    /\ last' = [op |-> op, qp |-> f.qp, res |-> r.res]
    /\ nops' = nops + 1
    /\ UNCHANGED <<rest, pr, alat, mem, panicked, shadow, writesOnly, scn, rse, fresh>>

ExecMoveToPsr ==
    /\ nops < MaxSysOps
    /\ \E f \in SourceFields :
        /\ f.sources # << >>
        /\ SysStep("MoveToPsr", f, MoveToPsr_execute(gr, cr, f))

ExecMoveFromPsr ==
    /\ nops < MaxSysOps
    /\ \E f \in DestFields :
        /\ SysStep("MoveFromPsr", f, MoveFromPsr_execute(gr, cr, f))

ExecRfi ==
    /\ nops < MaxSysOps
    /\ \E f \in DestFields :
        /\ SysStep("Rfi", f, Rfi_execute(gr, cr, f))

ExecMovToPsr ==
    /\ nops < MaxSysOps
    /\ \E f \in SourceFields :
        /\ f.sources # << >>
        /\ SysStep("mov_to_psr", f, mov_to_psr(gr, cr, f.sources[1]))

ExecMovFromPsr ==
    /\ nops < MaxSysOps
    /\ \E f \in DestFields :
        /\ SysStep("mov_from_psr", f, mov_from_psr(gr, cr, f.destinations[1]))

ExecRum ==
    /\ nops < MaxSysOps
    /\ \E f \in SourceFields :
        /\ SysStep("rum", f, rum(gr, cr, f))

ExecSum ==
    /\ nops < MaxSysOps
    /\ \E f \in SourceFields :
        /\ SysStep("sum", f, sum(gr, cr, f))

ExecXum ==
    /\ nops < MaxSysOps
    /\ \E f \in SourceFields :
        /\ SysStep("xum", f, xum(gr, cr, f))

ExecSsm ==
    /\ nops < MaxSysOps
    /\ \E f \in ImmFields :
        /\ SysStep("ssm", f, ssm(gr, cr, f))

ExecRsm ==
    /\ nops < MaxSysOps
    /\ \E f \in ImmFields :
        /\ SysStep("rsm", f, rsm(gr, cr, f))

ExecMovToCr ==
    /\ nops < MaxSysOps
    /\ \E f \in SourceFields :
        /\ SysStep("mov_to_cr", f, mov_to_cr(gr, cr, f))

ExecMovFromCr ==
    /\ nops < MaxSysOps
    /\ \E f \in DestFields :
        /\ SysStep("mov_from_cr", f, mov_from_cr(gr, cr, f))

SysNext ==
    \/ SysSetGr
    \/ SysSetPr
    \/ CrWrite
    \/ ExecMoveToPsr
    \/ ExecMoveFromPsr
    \/ ExecRfi
    \/ ExecMovToPsr
    \/ ExecMovFromPsr
    \/ ExecRum
    \/ ExecSum
    \/ ExecXum
    \/ ExecSsm
    \/ ExecRsm
    \/ ExecMovToCr
    \/ ExecMovFromCr

SysSpec == SysInit /\ [][SysNext]_vars

(***************************************************************************)
(* The interrupt controller: src/src/cpu/interrupts.rs                     *)
(***************************************************************************)

\* InterruptVector::ExtInt
ExtInt == 0

\* InterruptVector::DebugFault
DebugFault == 22

\* the vectors the runs name (of the 32 slots of the table)
Vectors == {ExtInt, DebugFault}

\* the handler addresses of the tests: 0x1000 for ExtInt, 0x2000 for DebugFault
HandlerAddress(vector) == IF vector = ExtInt THEN 4096 ELSE 8192

\* (psr >> 32) & 0x3
PrivilegeLevel(psr) == psr[5] % 4

\* Option: None is << >>, Some(x) is <<x>>
None == << >>

Some(x) == <<x>>

\* InterruptTable::new
InterruptTable_new ==
    [v \in Vectors |-> [address |-> 0, min_privilege |-> 0, enabled |-> FALSE]]

\* InterruptTable::register_handler
register_handler(table, vector, address, min_privilege) ==
    [table EXCEPT ![vector] = [address |-> address,
                               min_privilege |-> min_privilege,
                               enabled |-> TRUE]]

\* InterruptTable::get_handler_address (of a vector inside the table)
get_handler_address(table, vector) ==
    IF table[vector].enabled THEN Some(table[vector].address) ELSE None

\* InterruptController::new
InterruptController_new ==
    [table |-> InterruptTable_new, pending |-> << >>, current |-> None,
     nesting_level |-> 0, interrupts_enabled |-> FALSE]

\* InterruptController::set_interrupts_enabled
set_interrupts_enabled(c, enabled) == [c EXCEPT !.interrupts_enabled = enabled]

\* InterruptController::raise_interrupt
raise_interrupt(c, state) == [c EXCEPT !.pending = Append(@, state)]

\* Vec::pop: the vector without its last element
Popped(v) == SubSeq(v, 1, Len(v) - 1)

\* InterruptController::check_interrupts: [ic, res]
check_interrupts(c) ==
    IF ~c.interrupts_enabled \/ c.pending = << >> THEN [ic |-> c, res |-> None]
    ELSE LET state == c.pending[Len(c.pending)]
             saved == IF c.nesting_level > 0 /\ c.current # None
                      THEN [c EXCEPT !.pending = Append(Popped(@), c.current[1]),
                                     !.current = None]
                      ELSE [c EXCEPT !.pending = Popped(@)]
             handler == get_handler_address(c.table, state.vector)
         IN  IF /\ handler # None
                /\ c.table[state.vector].enabled
                /\ PrivilegeLevel(state.psr)
                      >= c.table[state.vector].min_privilege
             THEN [ic |-> [saved EXCEPT !.current = Some(state),
                                        !.nesting_level = @ + 1],
                   res |-> handler]
             ELSE [ic |-> saved, res |-> None]

\* InterruptController::return_from_interrupt: [ic, res]
return_from_interrupt(c) ==
    IF c.nesting_level = 0 THEN [ic |-> c, res |-> None]
    ELSE LET left == [c EXCEPT !.nesting_level = @ - 1, !.current = None]
         IN  IF left.pending = << >> THEN [ic |-> left, res |-> None]
             ELSE LET state == left.pending[Len(left.pending)]
                      handler == get_handler_address(left.table, state.vector)
                  IN  IF handler # None
                      THEN [ic |-> [left EXCEPT !.pending = Popped(@),
                                                !.current = Some(state)],
                            res |-> handler]
                      ELSE [ic |-> [left EXCEPT !.pending = Popped(@)],
                            res |-> None]

\* the result of Cpu::return_from_interrupt on a Cpu with that controller:
\* an ExecutionError when current_interrupt() is None
Cpu_return_from_interrupt(c) ==
    IF c.current = None THEN "ExecutionError" ELSE "Ok"

\* number of controller operations in a run
MaxIntOps == 6

\* a PSR with privilege level 2, 2 << 32
PrivilegedPsr == <<0, 0, 0, 0, 2, 0, 0, 0>>

\* the interrupts raised: (vector, psr)
RaisedInterrupts ==
    {<<ExtInt, Zeros(8)>>, <<DebugFault, Zeros(8)>>, <<ExtInt, PrivilegedPsr>>}

\* the handlers registered: (vector, min_privilege)
Handlers == {<<ExtInt, 0>>, <<ExtInt, 2>>, <<DebugFault, 0>>}

\* InterruptController::new(), or the controller of test_nested_interrupts:
\* new(); register_handler(ExtInt, 0x1000, 0);
\* register_handler(DebugFault, 0x2000, 0); set_interrupts_enabled(true)
IntInit ==
    /\ alat = ALAT_new
    /\ gr = << >>
    /\ pr = << >>
    /\ mem = Memory_new
    /\ panicked = FALSE
    /\ nops = 0
    /\ shadow = << >>
    /\ writesOnly = TRUE
    /\ last = [op |-> "none", res |-> None, before |-> InterruptController_new]
    /\ scn = 0
    /\ rse = << >>
    /\ fresh = {}
    /\ cr = << >>
    /\ ic \in {InterruptController_new,
               [InterruptController_new EXCEPT
                  !.table = register_handler(
                               register_handler(@, ExtInt,
                                                HandlerAddress(ExtInt), 0),
                               DebugFault, HandlerAddress(DebugFault), 0),
                  !.interrupts_enabled = TRUE]}
    /\ delivered = << >>
    /\ recency = << >>
    /\ raised = [states |-> {}, returned |-> {}, stable |-> {}]
    /\ sc = << >>
    /\ dec = << >>
    /\ cfm = 0
    /\ pfs = 0

\* what a controller operation leaves alone
IntFrame ==
    UNCHANGED <<alat, gr, pr, mem, panicked, shadow, writesOnly, scn, rse,
                fresh, cr, sc, dec, cfm, pfs, recency>>

RegisterHandler ==
    /\ nops < MaxIntOps
    /\ \E h \in Handlers :
        /\ ic' = [ic EXCEPT !.table = register_handler(@, h[1],
                                           HandlerAddress(h[1]), h[2])]
        /\ last' = [op |-> "register_handler", res |-> None, before |-> ic]
        /\ raised' = [raised EXCEPT
                        !.stable = IF ic'.table = ic.table THEN @ ELSE {}]
    /\ nops' = nops + 1
    /\ UNCHANGED delivered
    /\ IntFrame

SetInterruptsEnabled ==
    /\ nops < MaxIntOps
    /\ \E enabled \in BOOLEAN :
        /\ ic' = set_interrupts_enabled(ic, enabled)
        /\ last' = [op |-> "set_interrupts_enabled", res |-> None,
                    before |-> ic]
    /\ nops' = nops + 1
    /\ UNCHANGED <<delivered, raised>>
    /\ IntFrame

\* raise_interrupt of a state whose info is the number of the operation
RaiseInterrupt ==
    /\ nops < MaxIntOps
    /\ \E i \in RaisedInterrupts :
      \E state \in { [vector |-> i[1], psr |-> i[2], info |-> nops + 1] } :
        /\ ic' = raise_interrupt(ic, state)
        /\ raised' = [raised EXCEPT !.states = @ \cup {state},
                                     !.stable = @ \cup {state}]
        /\ last' = [op |-> "raise_interrupt", res |-> None, before |-> ic]
    /\ nops' = nops + 1
    /\ UNCHANGED delivered
    /\ IntFrame

CheckInterrupts ==
    /\ nops < MaxIntOps
    /\ \E r \in { check_interrupts(ic) } :
        /\ ic' = r.ic
        /\ last' = [op |-> "check_interrupts", res |-> r.res, before |-> ic]
        /\ delivered' = IF r.res # None
                        THEN Append(delivered, r.ic.current[1])
                        ELSE delivered
        /\ raised' = IF r.res # None
                     THEN [raised EXCEPT !.returned = @ \cup {r.ic.current[1]}]
                     ELSE raised
    /\ nops' = nops + 1
    /\ IntFrame

ReturnFromInterrupt ==
    /\ nops < MaxIntOps
    /\ \E r \in { return_from_interrupt(ic) } :
        /\ ic' = r.ic
        /\ last' = [op |-> "return_from_interrupt", res |-> r.res,
                    before |-> ic]
        /\ delivered' = IF ic.nesting_level > 0 /\ delivered # << >>
                        THEN Popped(delivered)
                        ELSE delivered
        /\ raised' = IF r.res # None
                     THEN [raised EXCEPT !.returned = @ \cup {r.ic.current[1]}]
                     ELSE raised
    /\ nops' = nops + 1
    /\ IntFrame

IntNext ==
    \/ RegisterHandler
    \/ SetInterruptsEnabled
    \/ RaiseInterrupt
    \/ CheckInterrupts
    \/ ReturnFromInterrupt

IntSpec == IntInit /\ [][IntNext]_vars

(***************************************************************************)
(* System calls: src/src/cpu/syscall.rs and Cpu::do_syscall                *)
(***************************************************************************)

\* the discriminants of SyscallNumber, the values TryFrom<u64> accepts
SyscallNumber ==
    {1, 2, 3, 4, 5, 6, 7, 11, 12, 13, 14, 15, 17, 20, 21, 22, 23, 24, 78, 90,
     91, 92, 93, 97, 98, 99, 100, 101, 102}

\* SyscallNumber::try_from
try_from(value) == IF value \in SyscallNumber THEN Some(value) ELSE None

\* SYSCALL_PARAM_REGS, its first three of eight registers
SYSCALL_PARAM_REGS == <<32, 33, 34>>

\* SYSCALL_RETURN_REGS
SYSCALL_RETURN_REGS == <<8, 9>>

\* the general registers a system call names
SyscallRegs == {8, 9, 32, 33, 34}

\* a u64 below 256
Small(n) == <<n, 0, 0, 0, 0, 0, 0, 0>>

\* SyscallContext::new
SyscallContext_new(number) ==
    [number |-> number,
     params |-> [i \in DOMAIN SYSCALL_PARAM_REGS |-> Zeros(8)],
     returns |-> <<Zeros(8), Zeros(8)>>,
     error |-> None]

\* SyscallManager::new and SyscallManager::default: the four default
\* handlers, Exit = 1, Read = 3, Write = 4, GetPid = 20
SyscallManager_new ==
    [handlers |-> (1 :> "handle_exit" @@ 3 :> "handle_read"
                   @@ 4 :> "handle_write" @@ 20 :> "handle_getpid"),
     current |-> None]

\* SyscallManager::register_handler (HashMap::insert)
sc_register_handler(s, number, handler) ==
    [s EXCEPT !.handlers =
        [n \in DOMAIN @ \cup {number} |-> IF n = number THEN handler ELSE @[n]]]

\* the handler called on a context: [context, res].  handle_exit,
\* handle_write, handle_read and handle_getpid are those of SyscallManager;
\* "report_error" is a registered closure that calls set_return(0, 1) and
\* set_error(5) and returns Ok, "fail" one that returns an ExecutionError
CallHandler(handler, context) ==
    CASE handler = "handle_exit" ->
            [context |-> [context EXCEPT !.returns[1] = Zeros(8)], res |-> "Ok"]
      [] handler = "handle_write" ->
            [context |-> [context EXCEPT !.returns[1] = context.params[3],
                                         !.error = None],
             res |-> "Ok"]
      [] handler = "handle_read" ->
            [context |-> [context EXCEPT !.returns[1] = Zeros(8)], res |-> "Ok"]
      [] handler = "handle_getpid" ->
            [context |-> [context EXCEPT !.returns[1] = Small(1)], res |-> "Ok"]
      [] handler = "report_error" ->
            [context |-> [context EXCEPT !.returns[1] = Small(1),
                                         !.error = Some(Small(5))],
             res |-> "Ok"]
      [] handler = "fail" -> [context |-> context, res |-> "ExecutionError"]

\* SyscallManager::begin_syscall: [sc, res]
begin_syscall(s, g, syscall_num) ==
    IF try_from(syscall_num) = None THEN [sc |-> s, res |-> "InvalidSyscall"]
    ELSE [sc |-> [s EXCEPT !.current =
                    Some([SyscallContext_new(syscall_num) EXCEPT !.params =
                            [i \in DOMAIN SYSCALL_PARAM_REGS |->
                                g[SYSCALL_PARAM_REGS[i]]]])],
          res |-> "Ok"]

\* SyscallManager::execute_syscall: [context, res]
execute_syscall(s, context) ==
    IF context.number \notin DOMAIN s.handlers
    THEN [context |-> context, res |-> "InvalidSyscall"]
    ELSE CallHandler(s.handlers[context.number], context)

\* SyscallManager::end_syscall: [sc, gr, res]
end_syscall(s, g) ==
    IF s.current = None THEN [sc |-> s, gr |-> g, res |-> "NoSyscallContext"]
    ELSE [sc |-> [s EXCEPT !.current = None],
          gr |-> [g EXCEPT ![SYSCALL_RETURN_REGS[1]] = s.current[1].returns[1],
                           ![SYSCALL_RETURN_REGS[2]] =
                               IF s.current[1].error # None
                               THEN s.current[1].error[1] ELSE @],
          res |-> "Ok"]

\* Cpu::do_syscall: [gr, sc, res, context].  The manager is taken out of the
\* Cpu, which holds SyscallManager::default() until the last line puts the
\* taken one back; an early return leaves the default one in place.
do_syscall(g, s, syscall_num) ==
    LET begun == begin_syscall(s, g, syscall_num)
        gone  == [gr |-> g, sc |-> SyscallManager_new, context |-> None]
    IN  IF begun.res # "Ok" THEN gone @@ [res |-> begun.res]
        ELSE LET ran == execute_syscall(begun.sc, begun.sc.current[1])
             IN  IF ran.res # "Ok" THEN gone @@ [res |-> ran.res]
                 ELSE LET ended == end_syscall(
                                     [begun.sc EXCEPT !.current = Some(ran.context)],
                                     g)
                      IN  [gr |-> ended.gr, sc |-> ended.sc, res |-> ended.res,
                           context |-> Some(ran.context)]

\* number of operations in a run
MaxSyscallOps == 3

\* the values given to the registers
SyscallValues == {Zeros(8), Small(100)}

\* the numbers passed to do_syscall: none (0), Exit, Read, Write, Open
\* (without a default handler) and GetPid
SyscallInputs == {0, 1, 3, 4, 5, 20}

\* the handlers registered by register_syscall_handler: (number, closure)
RegisteredHandlers == {<<5, "report_error">>, <<5, "fail">>, <<4, "fail">>}

\* Cpu::default()
SyscallInit ==
    /\ alat = ALAT_new
    /\ gr = [r \in SyscallRegs |-> Zeros(8)]
    /\ pr = << >>
    /\ mem = Memory_new
    /\ panicked = FALSE
    /\ nops = 0
    /\ shadow = << >>
    /\ writesOnly = TRUE
    /\ last = [op |-> "none", res |-> "Ok", context |-> None, before |-> << >>]
    /\ scn = 0
    /\ rse = << >>
    /\ fresh = {}
    /\ cr = << >>
    /\ ic = << >>
    /\ delivered = << >>
    /\ recency = << >>
    /\ raised = {}
    /\ sc = SyscallManager_new
    /\ dec = << >>
    /\ cfm = 0
    /\ pfs = 0

\* what a system call operation leaves alone
SyscallFrame ==
    UNCHANGED <<alat, pr, mem, panicked, shadow, writesOnly, scn, rse, fresh,
                cr, ic, delivered, recency, raised, dec, cfm, pfs>>

\* cpu.set_gr(reg, value) of a parameter or return register
SyscallSetGr ==
    /\ nops < MaxSyscallOps
    /\ \E r \in {9, 34}, v \in SyscallValues :
        /\ gr' = set_gr(gr, r, v)
        /\ last' = [op |-> "set_gr", res |-> "Ok", context |-> None,
                    before |-> sc]
    /\ nops' = nops + 1
    /\ UNCHANGED sc
    /\ SyscallFrame

\* Cpu::register_syscall_handler
RegisterSyscallHandler ==
    /\ nops < MaxSyscallOps
    /\ \E h \in RegisteredHandlers :
        /\ sc' = sc_register_handler(sc, h[1], h[2])
        /\ last' = [op |-> "register_syscall_handler", res |-> "Ok",
                    context |-> None, before |-> sc]
    /\ nops' = nops + 1
    /\ UNCHANGED gr
    /\ SyscallFrame

\* Cpu::do_syscall
DoSyscall ==
    /\ nops < MaxSyscallOps
    /\ \E n \in SyscallInputs :
      \E r \in { do_syscall(gr, sc, n) } :
        /\ gr' = r.gr
        /\ sc' = r.sc
        /\ last' = [op |-> "do_syscall", res |-> r.res, context |-> r.context,
                    before |-> sc]
    /\ nops' = nops + 1
    /\ SyscallFrame

SyscallNext ==
    \/ SyscallSetGr
    \/ RegisterSyscallHandler
    \/ DoSyscall

SyscallSpec == SyscallInit /\ [][SyscallNext]_vars

(***************************************************************************)
(* The decoder: src/src/decoder/mod.rs and src/src/decoder/bundle.rs        *)
(* A u64 or u128 is the sequence of its bits, least significant first; a   *)
(* bundle is its sixteen bytes.                                            *)
(***************************************************************************)

\* u64::from_le_bytes, and the u128 that load_bundle assembles
from_le_bytes(bytes) ==
    [i \in 1..(8 * Len(bytes)) |-> IF Bit(bytes, i - 1) THEN 1 ELSE 0]

\* value >> n
shr(value, n) ==
    [i \in 1..Len(value) |-> IF i + n <= Len(value) THEN value[i + n] ELSE 0]

\* value << n, the bits shifted out are lost
shl(value, n) == [i \in 1..Len(value) |-> IF i > n THEN value[i - n] ELSE 0]

\* a | b
bitor(a, b) == [i \in 1..Len(a) |-> IF a[i] = 1 \/ b[i] = 1 THEN 1 ELSE 0]

\* a & b
bitand(a, b) == [i \in 1..Len(a) |-> IF a[i] = 1 /\ b[i] = 1 THEN 1 ELSE 0]

\* the number n, below 2^8, as a value of the given width
to_bits(n, width) ==
    [i \in 1..width |-> IF i <= 8 THEN (n \div Pow2(i - 1)) % 2 ELSE 0]

\* value & ((1 << len) - 1)
low_bits(value, len) == [i \in 1..Len(value) |-> IF i <= len THEN value[i] ELSE 0]

\* the number a short bit sequence stands for
RECURSIVE BitsValue(_)
BitsValue(bits) ==
    IF bits = << >> THEN 0 ELSE bits[1] + 2 * BitsValue(Tail(bits))

\* extract_bits
extract_bits(value, start, len) == low_bits(shr(value, start), len)

\* decoder::BundleTemplate::from_bits: the discriminant of the template
BundleTemplate_from_bits(bits) ==
    IF bits \in {0, 1, 2, 3, 4, 8, 9, 10} THEN Some(bits) ELSE None

\* decoder::bundle::BundleTemplate::from_bits: MII, MIB, MMI, MMB, MFI, MFB
bundle_BundleTemplate_from_bits(bits) ==
    IF bits \in 0..5 THEN Some(bits) ELSE None

\* decoder::Bundle::new on the sixteen bytes: [res, bundle]
Bundle_new(data) ==
    LET template == BundleTemplate_from_bits(data[1] % 32)
    IN  IF template = None THEN [res |-> "DecodeError", bundle |-> None]
        ELSE [res |-> "Ok",
              bundle |-> Some([data |-> data, template |-> template[1],
                               instructions |-> << >>])]

\* the units of the three slots of a template of decoder::Bundle::decode
Units(template) ==
    CASE template = 0 -> <<"M", "I", "I">>
      [] template = 1 -> <<"M", "I", "B">>
      [] template = 2 -> <<"M", "M", "I">>
      [] template = 3 -> <<"M", "M", "F">>
      [] template = 4 -> <<"M", "L", "X">>
      [] template = 8 -> <<"F", "B", "I">>
      [] template = 9 -> <<"B", "B", "B">>
      [] template = 10 -> <<"A", "A", "A">>

\* decoder::Bundle::decode: the bundle with its instructions, each the unit
\* and the 41 bits handed to the unit's decoder
Bundle_decode(b) ==
    LET data_low  == from_le_bytes(SubSeq(b.data, 1, 8))
        data_high == from_le_bytes(SubSeq(b.data, 9, 16))
        bits0 == extract_bits(data_low, 5, 41)
        bits1 == low_bits(bitor(shr(data_low, 46), shl(data_high, 18)), 41)
        bits2 == extract_bits(data_high, 23, 41)
        units == Units(b.template)
    IN  [b EXCEPT !.instructions =
            <<[unit |-> units[1], bits |-> bits0],
              [unit |-> units[2], bits |-> bits1],
              [unit |-> units[3], bits |-> bits2]>>]

\* decoder::bundle::Bundle::new on the u128: [res, bundle]
bundle_Bundle_new(data) ==
    LET template_bits == BitsValue(SubSeq(shr(bitand(data,
                                    shl(to_bits(31, 128), 1)), 1), 1, 8))
        template == bundle_BundleTemplate_from_bits(template_bits)
        slot(n) == low_bits(SubSeq(shr(data, n), 1, 64), 41)
    IN  IF template = None THEN [res |-> "DecodeError", bundle |-> None]
        ELSE [res |-> "Ok",
              bundle |-> Some([data |-> data, template |-> template[1],
                               slots |-> <<Some(slot(6)), Some(slot(46)),
                                           Some(slot(87))>>])]

\* Decoder::new
Decoder_new == [current_bundle |-> None, current_slot |-> 0]

\* Decoder::load_bundle: [decoder, res]
load_bundle(d, data) ==
    LET made == bundle_Bundle_new(from_le_bytes(data))
    IN  IF made.res # "Ok" THEN [decoder |-> d, res |-> made.res]
        ELSE [decoder |-> [current_bundle |-> made.bundle, current_slot |-> 0],
              res |-> "Ok"]

\* Decoder::next_instruction: [decoder, slot]
next_instruction(d) ==
    IF d.current_bundle # None /\ d.current_slot < 3
    THEN [decoder |-> [d EXCEPT !.current_slot = @ + 1],
          slot |-> d.current_bundle[1].slots[d.current_slot + 1]]
    ELSE [decoder |-> d, slot |-> None]

\* number of operations in a run
MaxDecOps == 2

\* the first bytes of the bundles given: every template with bit 5 clear
\* or set
FirstBytes == 0..63

\* the other fifteen bytes of the bundles given
OtherBytes ==
    {[i \in 1..15 |-> 0], [i \in 1..15 |-> 255],
     <<205, 171, 137, 103, 69, 35, 1, 239, 205, 171, 137, 103, 69, 35, 1>>}

\* the bundles given
Bundles == { <<b>> \o o : b \in FirstBytes, o \in OtherBytes }

\* Decoder::new(), no decoder::Bundle made yet
DecInit ==
    /\ alat = ALAT_new
    /\ gr = << >>
    /\ pr = << >>
    /\ mem = Memory_new
    /\ panicked = FALSE
    /\ nops = 0
    /\ shadow = << >>
    /\ writesOnly = TRUE
    /\ last = [op |-> "none", res |-> "Ok", data |-> << >>, bundle |-> None,
               before |-> Decoder_new]
    /\ scn = 0
    /\ rse = << >>
    /\ fresh = {}
    /\ cr = << >>
    /\ ic = << >>
    /\ delivered = << >>
    /\ recency = << >>
    /\ raised = {}
    /\ sc = << >>
    /\ dec = Decoder_new
    /\ cfm = 0
    /\ pfs = 0

\* what a decoder operation leaves alone
DecFrame ==
    UNCHANGED <<alat, gr, pr, mem, panicked, shadow, writesOnly, scn, rse,
                fresh, cr, ic, delivered, recency, raised, sc, cfm, pfs>>

\* Decoder::load_bundle
LoadBundle ==
    /\ nops < MaxDecOps
    /\ \E data \in Bundles :
      \E r \in { load_bundle(dec, data) } :
        /\ dec' = r.decoder
        /\ last' = [op |-> "load_bundle", res |-> r.res, data |-> data,
                    bundle |-> None, before |-> dec]
    /\ nops' = nops + 1
    /\ DecFrame

\* Decoder::next_instruction
NextInstruction ==
    /\ nops < MaxDecOps
    /\ dec' = next_instruction(dec).decoder
    /\ last' = [op |-> "next_instruction", res |-> "Ok", data |-> << >>,
                bundle |-> None, before |-> dec]
    /\ nops' = nops + 1
    /\ DecFrame

\* decoder::Bundle::new
BundleNew ==
    /\ nops < MaxDecOps
    /\ \E data \in Bundles :
      \E r \in { Bundle_new(data) } :
        last' = [op |-> "Bundle::new", res |-> r.res, data |-> data,
                 bundle |-> r.bundle, before |-> dec]
    /\ nops' = nops + 1
    /\ UNCHANGED dec
    /\ DecFrame

\* decoder::Bundle::decode on the bundle that Bundle::new returned
BundleDecode ==
    /\ nops < MaxDecOps
    /\ last.op = "Bundle::new"
    /\ last.bundle # None
    /\ last' = [op |-> "Bundle::decode", res |-> "Ok", data |-> last.data,
                bundle |-> Some(Bundle_decode(last.bundle[1])), before |-> dec]
    /\ nops' = nops + 1
    /\ UNCHANGED dec
    /\ DecFrame

DecNext ==
    \/ LoadBundle
    \/ NextInstruction
    \/ BundleNew
    \/ BundleDecode

DecSpec == DecInit /\ [][DecNext]_vars

(***************************************************************************)
(* The current frame marker: Cpu::branch_with_alloc, Cpu::handle_return    *)
(* and Cpu::update_frame_markers of src/src/cpu/mod.rs.  The RSE stays in  *)
(* the Lazy mode of Cpu::new(), in which it writes no memory.              *)
(***************************************************************************)

\* a | b on two u64 below 2^30
RECURSIVE IntOr(_, _)
IntOr(a, b) ==
    IF a = 0 THEN b
    ELSE IF b = 0 THEN a
    ELSE (IF a % 2 = 1 \/ b % 2 = 1 THEN 1 ELSE 0) + 2 * IntOr(a \div 2, b \div 2)

\* (marker >> shift) & 0x7F
FrameField(marker, shift) == (marker \div Pow2(shift)) % 128

\* sof | sol << 7 | sor << 14
FrameMarker(sof, sol, sor) == IntOr(IntOr(sof, sol * Pow2(7)), sor * Pow2(14))

\* Cpu::branch_with_alloc: [cfm, rse, mem, res]
branch_with_alloc(c, r, m, sof, sol, sor) ==
    LET old_sof == FrameField(c, 0)
        to_allocate == saturating_sub(sof, old_sof)
        to_deallocate == saturating_sub(old_sof, sof)
        moved == IF to_allocate > 0
                 THEN allocate_registers(r, to_allocate) @@ [mem |-> m]
                 ELSE IF to_deallocate > 0
                 THEN deallocate_registers(r, m, to_deallocate)
                 ELSE [rse |-> r, mem |-> m, res |-> "Ok"]
    IN  IF moved.res # "Ok"
        THEN [cfm |-> c, rse |-> moved.rse, mem |-> moved.mem, res |-> moved.res]
        ELSE [cfm |-> FrameMarker(sof, sol, sor), rse |-> moved.rse,
              mem |-> moved.mem, res |-> "Ok"]

\* Cpu::handle_return: [cfm, rse, mem, res]
handle_return(c, p, r, m) ==
    LET prev_sof == FrameField(p, 0)
        prev_sol == FrameField(p, 7)
        prev_sor == FrameField(p, 14)
        curr_sof == FrameField(c, 0)
        freed == deallocate_registers(r, m, curr_sof)
    IN  IF freed.res # "Ok"
        THEN [cfm |-> c, rse |-> freed.rse, mem |-> freed.mem, res |-> freed.res]
        ELSE [cfm |-> FrameMarker(prev_sof, prev_sol, prev_sor),
              rse |-> freed.rse, mem |-> freed.mem, res |-> "Ok"]

\* Cpu::update_frame_markers: [cfm, res]
update_frame_markers(c, sof, sol, sor) ==
    IF sof < sol \/ sol < sor THEN [cfm |-> c, res |-> "CpuStateError"]
    ELSE [cfm |-> FrameMarker(sof, sol, sor), res |-> "Ok"]

\* number of operations in a run
MaxCfmOps == 3

\* the sizes passed as sof, sol and sor
FrameSizes == {0, 1, 2, 128}

\* the values assigned to the public field pfs
PfsValues == {FrameMarker(2, 1, 0), FrameMarker(1, 2, 0), FrameMarker(2, 2, 1)}

\* the record of a frame operation: its arguments, its result and the
\* marker and RSE it began with
CfmRecord(op, sof, sol, sor, res) ==
    [op |-> op, sof |-> sof, sol |-> sol, sor |-> sor, res |-> res,
     before |-> [cfm |-> cfm, rse |-> rse]]

\* Cpu::new() and Memory::new()
CfmInit ==
    /\ alat = << >>
    /\ gr = << >>
    /\ pr = << >>
    /\ mem = Memory_new
    /\ panicked = FALSE
    /\ nops = 0
    /\ shadow = << >>
    /\ writesOnly = TRUE
    /\ last = [op |-> "none", sof |-> 0, sol |-> 0, sor |-> 0, res |-> "Ok",
               before |-> [cfm |-> 0, rse |-> RSE_new]]
    /\ scn = 0
    /\ rse = RSE_new
    /\ fresh = {}
    /\ cr = << >>
    /\ ic = << >>
    /\ delivered = << >>
    /\ recency = << >>
    /\ raised = {}
    /\ sc = << >>
    /\ dec = << >>
    /\ cfm = 0
    /\ pfs = 0

\* what a frame operation leaves alone
CfmFrame ==
    UNCHANGED <<alat, gr, pr, panicked, shadow, writesOnly, scn, fresh, cr, ic,
                delivered, recency, raised, sc, dec>>

\* Cpu::branch_with_alloc
BranchWithAlloc ==
    /\ nops < MaxCfmOps
    /\ \E sof, sol, sor \in FrameSizes :
      \E r \in { branch_with_alloc(cfm, rse, mem, sof, sol, sor) } :
        /\ cfm' = r.cfm
        /\ rse' = r.rse
        /\ mem' = r.mem
        /\ last' = CfmRecord("branch_with_alloc", sof, sol, sor, r.res)
    /\ nops' = nops + 1
    /\ UNCHANGED pfs
    /\ CfmFrame

\* Cpu::handle_return; the values written are the fields of pfs
HandleReturn ==
    /\ nops < MaxCfmOps
    /\ \E r \in { handle_return(cfm, pfs, rse, mem) } :
        /\ cfm' = r.cfm
        /\ rse' = r.rse
        /\ mem' = r.mem
        /\ last' = CfmRecord("handle_return", FrameField(pfs, 0),
                             FrameField(pfs, 7), FrameField(pfs, 14), r.res)
    /\ nops' = nops + 1
    /\ UNCHANGED pfs
    /\ CfmFrame

\* Cpu::update_frame_markers
UpdateFrameMarkers ==
    /\ nops < MaxCfmOps
    /\ \E sof, sol, sor \in FrameSizes :
      \E r \in { update_frame_markers(cfm, sof, sol, sor) } :
        /\ cfm' = r.cfm
        /\ last' = CfmRecord("update_frame_markers", sof, sol, sor, r.res)
    /\ nops' = nops + 1
    /\ UNCHANGED <<pfs, rse, mem>>
    /\ CfmFrame

\* cpu.pfs = value
SetPfs ==
    /\ nops < MaxCfmOps
    /\ \E value \in PfsValues :
        /\ pfs' = value
        /\ last' = CfmRecord("set_pfs", 0, 0, 0, "Ok")
    /\ nops' = nops + 1
    /\ UNCHANGED <<cfm, rse, mem>>
    /\ CfmFrame

\* Cpu::deallocate_registers
CpuDeallocateRegisters ==
    /\ nops < MaxCfmOps
    /\ \E k \in {1, 2} :
      \E r \in { deallocate_registers(rse, mem, k) } :
        /\ rse' = r.rse
        /\ mem' = r.mem
        /\ last' = CfmRecord("deallocate_registers", 0, 0, 0, r.res)
    /\ nops' = nops + 1
    /\ UNCHANGED <<cfm, pfs>>
    /\ CfmFrame

CfmNext ==
    \/ BranchWithAlloc
    \/ HandleReturn
    \/ UpdateFrameMarkers
    \/ SetPfs
    \/ CpuDeallocateRegisters

CfmSpec == CfmInit /\ [][CfmNext]_vars

(***************************************************************************)
(* The replacement of the lines of one L1 set: Memory::read_u8 and          *)
(* Memory::write_u8 of bytes of three lines that share the set.  Every     *)
(* such operation reaches the line of its address in L1, by a hit or by    *)
(* the fill or write that installs it; recency records when.               *)
(***************************************************************************)

\* number of operations in a run
MaxLruOps == 5

\* the first bytes of three lines of the same L1 set
LruAddrs == {REGION_BASE, REGION_BASE + L1Stride, REGION_BASE + 2 * L1Stride}

\* the L1 tag of an address
L1Tag(addr) == decompose_address(Memory_new.l1, addr).tag

\* the L1 set of the three lines
LruSet == decompose_address(Memory_new.l1, REGION_BASE).set_idx

\* Memory::new(); map(0x1000, RegionSize, ReadWrite)
LruInit ==
    /\ alat = << >>
    /\ gr = << >>
    /\ pr = << >>
    /\ mem = map(Memory_new, REGION_BASE, RegionSize, "ReadWrite").m
    /\ panicked = FALSE
    /\ nops = 0
    /\ shadow = << >>
    /\ writesOnly = TRUE
    /\ last = [op |-> "none", address |-> 0, res |-> "Ok"]
    /\ scn = 0
    /\ rse = << >>
    /\ fresh = {}
    /\ cr = << >>
    /\ ic = << >>
    /\ delivered = << >>
    /\ recency = [a \in LruAddrs |-> 0]
    /\ raised = {}
    /\ sc = << >>
    /\ dec = << >>
    /\ cfm = 0
    /\ pfs = 0

\* what an operation on the set leaves alone
LruFrame ==
    UNCHANGED <<alat, gr, pr, panicked, shadow, writesOnly, scn, rse, fresh,
                cr, ic, delivered, raised, sc, dec, cfm, pfs>>

\* memory.write_u8(addr, n), n the number of the operation
LruWrite ==
    /\ nops < MaxLruOps
    /\ \E addr \in LruAddrs :
      \E r \in { write_u8(mem, addr, nops + 1) } :
        /\ mem' = r.m
        /\ recency' = IF r.res = "Ok"
                      THEN [recency EXCEPT ![addr] = nops + 1]
                      ELSE recency
        /\ last' = [op |-> "write_u8", address |-> addr, res |-> r.res]
    /\ nops' = nops + 1
    /\ LruFrame

\* memory.read_u8(addr)
LruRead ==
    /\ nops < MaxLruOps
    /\ \E addr \in LruAddrs :
      \E r \in { read_u8(mem, addr) } :
        /\ mem' = r.m
        /\ recency' = IF r.ok
                      THEN [recency EXCEPT ![addr] = nops + 1]
                      ELSE recency
        /\ last' = [op |-> "read_u8", address |-> addr,
                    res |-> IF r.ok THEN "Ok" ELSE "Err"]
    /\ nops' = nops + 1
    /\ LruFrame

LruNext ==
    \/ LruWrite
    \/ LruRead

LruSpec == LruInit /\ [][LruNext]_vars

(***************************************************************************)
(* The semaphore instructions: Semaphore::execute of                       *)
(* src/src/cpu/instructions/memory.rs, on bytes of one cache line          *)
(***************************************************************************)

\* u64::wrapping_add on the bytes from position k, with the carry
RECURSIVE AddFrom(_, _, _, _)
AddFrom(a, b, k, carry) ==
    IF k > 8 THEN << >>
    ELSE <<(a[k] + b[k] + carry) % 256>>
            \o AddFrom(a, b, k + 1, (a[k] + b[k] + carry) \div 256)

\* u64::wrapping_add
wrapping_add(a, b) == AddFrom(a, b, 1, 0)

\* Semaphore::execute on an instruction i = [qp, src1, src2, dest, addr, op,
\* size] with sources GR(src1), GR(src2), destination GR(dest), Absolute(addr)
\* addressing and no ordering: [gr, mem, res, executed]
Semaphore_execute(g, p, m, i) ==
    IF ~p[i.qp] THEN [gr |-> g, mem |-> m, res |-> "Ok", executed |-> FALSE]
    ELSE Only({
      IF ~r.ok
      THEN [gr |-> g, mem |-> r.m, res |-> "Err", executed |-> FALSE]
      ELSE LET current == ZeroExtend(r.val)
               new == CASE i.op = "Xchg" -> g[i.src1]
                        [] i.op = "Cmpxchg" -> g[i.src1]
                        [] i.op = "Fetchadd" -> wrapping_add(current, g[i.src1])
               writes == i.op # "Cmpxchg" \/ current = g[i.src2]
           IN  IF ~writes
               THEN [gr |-> set_gr(g, i.dest, current), mem |-> r.m,
                     res |-> "Ok", executed |-> TRUE]
               ELSE Only({
                 IF w.res # "Ok"
                 THEN [gr |-> IF i.op = "Xchg" THEN g
                              ELSE set_gr(g, i.dest, current),
                       mem |-> w.m, res |-> w.res, executed |-> FALSE]
                 ELSE [gr |-> set_gr(g, i.dest, current), mem |-> w.m,
                       res |-> "Ok", executed |-> TRUE]
                 : w \in { WriteBySize(r.m, i.size, i.addr, new) } })
      : r \in { ReadBySize(m, i.size, i.addr) } })

\* number of operations in a run
MaxSemOps == 4

\* the registers of the tests: r1 the new value or increment, r2 the
\* destination, r3 the compare value
SemRegs == {0, 1, 2, 3}

\* the values given to r1 and r3: 0, 1, 0x100 and 0xFFFF_FFFF_FFFF_FFFF
SemValues ==
    {Zeros(8), <<1, 0, 0, 0, 0, 0, 0, 0>>, <<0, 1, 0, 0, 0, 0, 0, 0>>,
     <<255, 255, 255, 255, 255, 255, 255, 255>>}

\* the instructions executed, all at the region base
SemInstructions ==
    [qp : PRegs, src1 : {1}, src2 : {3}, dest : {2}, addr : {REGION_BASE},
     op : {"Xchg", "Cmpxchg", "Fetchadd"}, size : {"Byte", "Double"}]

\* the n bytes of the region at addr
RegionBytes(m, addr, n) ==
    SubSeq(m.regions[REGION_BASE].data, addr - REGION_BASE + 1,
           addr - REGION_BASE + n)

\* setup_test: Cpu::new(); Memory::new(); map(0x1000, RegionSize,
\* ReadWriteExecute); set_pr(0, true)
SemInit ==
    /\ alat = ALAT_new
    /\ gr = [r \in SemRegs |-> Zeros(8)]
    /\ pr = set_pr([p \in PRegs |-> FALSE], 0, TRUE)
    /\ mem = map(Memory_new, REGION_BASE, RegionSize, "ReadWriteExecute").m
    /\ panicked = FALSE
    /\ nops = 0
    /\ shadow = << >>
    /\ writesOnly = TRUE
    /\ last = [op |-> "none", res |-> "Ok", executed |-> FALSE]
    /\ scn = 0
    /\ rse = << >>
    /\ fresh = {}
    /\ cr = << >>
    /\ RestInit

\* cpu.set_gr(reg, value) of a source register
SemSetGr ==
    /\ ~panicked
    /\ nops < MaxSemOps
    /\ \E reg \in {1, 3}, value \in SemValues :
        /\ gr' = set_gr(gr, reg, value)
        /\ last' = [op |-> "set_gr", res |-> "Ok", executed |-> FALSE]
    /\ nops' = nops + 1
    /\ UNCHANGED <<rest, cr, alat, pr, mem, panicked, shadow, writesOnly, scn,
                   rse, fresh>>

\* Semaphore::execute; the record keeps the registers and the bytes of the
\* region before the instruction
ExecSemaphore ==
    /\ ~panicked
    /\ nops < MaxSemOps
    /\ \E i \in SemInstructions :
      \E r \in { Semaphore_execute(gr, pr, mem, i) } :
        /\ gr' = r.gr
        /\ mem' = r.mem
        /\ panicked' = (r.res = "Panic")
        /\ last' = [op |-> "semaphore", instruction |-> i, res |-> r.res,
                    executed |-> r.executed, gr |-> gr,
                    prior |-> RegionBytes(mem, i.addr, SizeBytes(i.size)),
                    region |-> mem.regions[REGION_BASE].data]
    /\ nops' = nops + 1
    /\ UNCHANGED <<rest, cr, alat, pr, shadow, writesOnly, scn, rse, fresh>>

SemNext ==
    \/ SemSetGr
    \/ ExecSemaphore

SemSpec == SemInit /\ [][SemNext]_vars

(***************************************************************************)
(* Properties of the regions                                               *)
(***************************************************************************)

\* C11: after any sequence of map and unmap calls no two mapped regions
\* overlap, because map rejects every range that intersects an existing
\* region, wherever that region starts.
C11_RegionsNeverOverlap ==
    \A a, b \in DOMAIN mem.regions :
        a < b => a + mem.regions[a].size <= b

\* C12: a read that succeeds inside a region that has not been written since
\* it was mapped (and that no other region overlaps) returns zero bytes, also
\* when the same range was mapped, written and unmapped before.
C12_RemappedRegionReadsZero ==
    ( /\ last.op = "read"
      /\ last.res = "Ok"
      /\ \E b \in fresh \cap DOMAIN mem.regions :
            \A a \in last.address .. (last.address + last.size - 1) :
                RegionsAt(mem, a) = {b} )
    => \A i \in 1..Len(last.value) : last.value[i] = 0

C14_NoPanic == ~panicked

(***************************************************************************)
(* Properties of the register stack engine                                 *)
(***************************************************************************)

Triple(r) == <<r.dirty_count, r.clean_count, r.invalid_count>>

\* C15: in every mode, allocate_registers(k) that succeeds followed by a
\* deallocate_registers(k) that succeeds leaves (dirty, clean, invalid) as
\* they were before the allocation.
C15_AllocateDeallocateRestores ==
    ( /\ last.op = "deallocate"
      /\ last.res = "Ok"
      /\ last.prev.op = "allocate"
      /\ last.prev.res = "Ok"
      /\ last.prev.count = last.count )
    => Triple(rse) = Triple(last.prev.before)

\* C16: allocate_registers(N) succeeds exactly when N <= clean + invalid;
\* on success clean falls by min(N, clean), invalid by the rest of N and
\* dirty rises by N; otherwise it returns RSEError.
C16_AllocateCounts ==
    last.op = "allocate" =>
        LET b == last.before
            N == last.count
            fromClean == Min(N, b.clean_count)
        IN  /\ (last.res = "Ok") <=> (N <= b.clean_count + b.invalid_count)
            /\ last.res = "Ok" =>
                  /\ rse.clean_count = b.clean_count - fromClean
                  /\ rse.invalid_count = b.invalid_count - (N - fromClean)
                  /\ rse.dirty_count = b.dirty_count + N
            /\ last.res # "Ok" => last.res = "RSEError"

\* an allocation that took every clean register and some invalid ones
C16_Witness ==
    /\ last.op = "allocate"
    /\ last.res = "Ok"
    /\ last.before.clean_count > 0
    /\ last.count > last.before.clean_count

\* C17: in Eager mode deallocate_registers(N) succeeds, dirty falls by
\* min(N, dirty), clean falls by the rest of N (not below 0) and invalid
\* rises by N.
C17_EagerDeallocateCounts ==
    (last.op = "deallocate" /\ last.before.mode = "Eager") =>
        LET b == last.before
            N == last.count
            fromDirty == Min(N, b.dirty_count)
        IN  /\ last.res = "Ok"
            /\ rse.dirty_count = b.dirty_count - fromDirty
            /\ rse.clean_count = saturating_sub(b.clean_count, N - fromDirty)
            /\ rse.invalid_count = b.invalid_count + N

\* C18: from dirty = 63 and bspstore = 0x1000, spill_registers(63) succeeds
\* and leaves bspstore = 0x1000 + 64 * 8, the RNAT word stored after the 63
\* registers.
C18_SpillCrossesRnat ==
    (last.op = "spill" /\ last.count = 63) =>
        /\ last.res = "Ok"
        /\ rse.bspstore = REGION_BASE + 64 * 8

\* bspstore after n registers stored from address b: 8 for each, 16 for one
\* stored at slot 63
RECURSIVE Advance(_, _)
Advance(b, n) ==
    IF n = 0 THEN b
    ELSE Advance(IF Slot(b) = 63 THEN b + 16 ELSE b + 8, n - 1)

\* C19: spill_registers(N) with N <= dirty succeeds, dirty falls by N, clean
\* rises by N and bspstore advances by 8 for each register (16 at slot 63);
\* with N > dirty it returns RSEError and changes nothing; flush spills every
\* dirty register.
C19_SpillCounts ==
    /\ last.op = "spill" =>
          IF last.count <= last.before.dirty_count
          THEN /\ last.res = "Ok"
               /\ rse.dirty_count = last.before.dirty_count - last.count
               /\ rse.clean_count = last.before.clean_count + last.count
               /\ rse.bspstore = Advance(last.before.bspstore, last.count)
          ELSE /\ last.res = "RSEError"
               /\ rse = last.before
    /\ last.op = "flush" =>
          /\ last.res = "Ok"
          /\ rse.dirty_count = 0
          /\ rse.clean_count = last.before.clean_count + last.before.dirty_count

(***************************************************************************)
(* Properties of the general registers                                     *)
(***************************************************************************)

\* C20: GR[0] holds 0 in every reachable Cpu state, whatever set_gr call or
\* instruction named it as destination.
C20_GrZeroReadsZero == gr[0] = Zeros(8)

(***************************************************************************)
(* Properties of the system instructions                                   *)
(***************************************************************************)

\* bits 48..63 of a PSR value
Reserved(psr) == <<psr[7], psr[8]>>

\* C21: every write to the PSR, through CRFile::write and through each
\* instruction that modifies it, leaves the PSR bits outside the writable
\* mask 0x0000_FFFF_FFFF_FFFF (bits 48..63) as they were before the write.
C21_PsrReservedBitsPreserved ==
    [][Reserved(cr'[CR_PSR]) = Reserved(cr[CR_PSR])]_vars

\* the names of the system instructions
SystemInstructions ==
    {"MoveToPsr", "MoveFromPsr", "Rfi", "mov_to_psr", "mov_from_psr", "rum",
     "sum", "xum", "ssm", "rsm", "mov_to_cr", "mov_from_cr"}

\* C22: a system instruction whose qualifying predicate PR[qp] is false
\* returns Ok and leaves the registers, the PSR, memory and the ALAT as they
\* were, raising no error even if it would otherwise fault.
C22_FalsePredicateNoEffect ==
    [][(last'.op \in SystemInstructions /\ ~pr[last'.qp])
       => (last'.res = "Ok" /\ UNCHANGED <<gr, pr, cr, mem, alat>>)]_vars

\* C23: PR[0] is true in every state of the Cpu: when created and after any
\* set_pr(0, x).
C23_PrZeroTrue == pr[0] = TRUE

\* the names of the privileged instructions
PrivilegedInstructions ==
    {"MoveToPsr", "MoveFromPsr", "Rfi", "mov_to_psr", "mov_from_psr", "ssm",
     "rsm", "mov_to_cr", "mov_from_cr"}

\* C27: a privileged instruction executed while PSR.SECURE = 0 returns
\* PrivilegeViolation and leaves the PSR, the control registers and the
\* general registers unchanged.
C27_PrivilegeViolation ==
    [][(last'.op \in PrivilegedInstructions
          /\ ~Bit(cr[CR_PSR], SECURE_BIT))
       => (last'.res = "PrivilegeViolation" /\ UNCHANGED <<gr, cr>>)]_vars

(***************************************************************************)
(* Properties of the interrupt controller                                  *)
(***************************************************************************)

\* the interrupt of a non-empty pending vector that was raised last
MostRecentlyRaised(pending) ==
    CHOOSE x \in {pending[k] : k \in DOMAIN pending} :
        \A k \in DOMAIN pending : pending[k].info <= x.info

\* the handler of the vector is enabled and the privilege of the interrupt
\* reaches its min_privilege
Deliverable(table, state) ==
    /\ table[state.vector].enabled
    /\ PrivilegeLevel(state.psr) >= table[state.vector].min_privilege

\* C24: check_interrupts returns None and changes nothing when interrupts
\* are disabled or nothing is pending; otherwise it takes the pending
\* interrupt raised last and, if its handler is enabled and its privilege
\* suffices, makes it current, adds 1 to nesting_level and returns the
\* handler address; if not it returns None with nesting_level unchanged.
C24_CheckInterrupts ==
    last.op = "check_interrupts" =>
        IF ~last.before.interrupts_enabled \/ last.before.pending = << >>
        THEN last.res = None /\ ic = last.before
        ELSE IF Deliverable(last.before.table,
                            MostRecentlyRaised(last.before.pending))
        THEN /\ ic.current = Some(MostRecentlyRaised(last.before.pending))
             /\ ic.nesting_level = last.before.nesting_level + 1
             /\ last.res = Some(last.before.table[
                     MostRecentlyRaised(last.before.pending).vector].address)
        ELSE /\ last.res = None
             /\ ic.nesting_level = last.before.nesting_level

\* C25: nested interrupts unwind in reverse order of delivery: the return
\* that ends the innermost delivered interrupt makes the one delivered
\* before it current again and returns its handler address, whatever was
\* raised in between; the return that ends the outermost one leaves
\* nesting_level 0 and yields None.
C25_NestedUnwindInReverse ==
    (last.op = "return_from_interrupt" /\ last.before.nesting_level > 0) =>
        IF delivered = << >>
        THEN /\ ic.nesting_level = 0
             /\ ic.current = None
             /\ last.res = None
        ELSE /\ ic.current = Some(delivered[Len(delivered)])
             /\ last.res = Some(ic.table[delivered[Len(delivered)].vector].address)

(***************************************************************************)
(* Properties of the system calls                                          *)
(***************************************************************************)

\* C26: after a successful do_syscall GR[8] holds the handler's result and
\* GR[9] the error code, which is 0 when the handler reported no error,
\* whatever GR[9] held before the call.
C26_SyscallReturnRegisters ==
    (last.op = "do_syscall" /\ last.res = "Ok") =>
        /\ gr[8] = last.context[1].returns[1]
        /\ gr[9] = IF last.context[1].error = None
                   THEN Zeros(8)
                   ELSE last.context[1].error[1]

(***************************************************************************)
(* Properties of the decoder                                               *)
(***************************************************************************)

\* the eight templates of the table
TemplateTable == {0, 1, 2, 3, 4, 8, 9, 10}

\* C28: decoder::Bundle::new and Decoder::load_bundle accept a bundle
\* exactly when the template in bits 0..5 is one of the eight of the table
\* and return DecodeError otherwise; a rejected load_bundle leaves the
\* decoder's bundle and slot cursor as they were.
C28_TemplatesAccepted ==
    last.op \in {"Bundle::new", "load_bundle"} =>
        /\ last.res = "Ok" <=> last.data[1] % 32 \in TemplateTable
        /\ last.res # "Ok" => last.res = "DecodeError"
        /\ (last.op = "load_bundle" /\ last.res # "Ok") => dec = last.before

\* t | s0 << 5 | s1 << 46 | s2 << 87 as a u128
Reassembled(t, s0, s1, s2) ==
    LET wide(v) == [i \in 1..128 |-> IF i <= Len(v) THEN v[i] ELSE 0]
    IN  bitor(bitor(bitor(to_bits(t, 128), shl(wide(s0), 5)), shl(wide(s1), 46)),
              shl(wide(s2), 87))

\* C29: the decoded template and the three 41-bit slots of a bundle with a
\* valid template re-assemble to the bundle, t | s0<<5 | s1<<46 | s2<<87,
\* for decoder::Bundle::decode and for decoder::bundle::Bundle::new (as
\* load_bundle calls it).
C29_DecodeRoundTrip ==
    /\ last.op = "Bundle::decode" =>
            Reassembled(last.bundle[1].template,
                        last.bundle[1].instructions[1].bits,
                        last.bundle[1].instructions[2].bits,
                        last.bundle[1].instructions[3].bits)
                = from_le_bytes(last.data)
    /\ (last.op = "load_bundle" /\ last.res = "Ok") =>
            Reassembled(dec.current_bundle[1].template,
                        dec.current_bundle[1].slots[1][1],
                        dec.current_bundle[1].slots[2][1],
                        dec.current_bundle[1].slots[3][1])
                = from_le_bytes(last.data)

(***************************************************************************)
(* Properties of the current frame marker                                  *)
(***************************************************************************)

\* sof >= sol >= sor, each below 128
FrameValid(sof, sol, sor) == sof >= sol /\ sol >= sor /\ sof < 128

\* C30: the current frame marker always has sof >= sol >= sor, each below
\* 128: a write through update_frame_markers, branch_with_alloc or
\* handle_return of values that violate this fails and leaves CFM and the
\* RSE counters as they were.
C30_FrameMarkerInvariant ==
    /\ FrameValid(FrameField(cfm, 0), FrameField(cfm, 7), FrameField(cfm, 14))
    /\ cfm < Pow2(21)
    /\ (/\ last.op \in {"update_frame_markers", "branch_with_alloc",
                         "handle_return"}
        /\ ~FrameValid(last.sof, last.sol, last.sor)) =>
            /\ last.res # "Ok"
            /\ cfm = last.before.cfm
            /\ rse = last.before.rse

(***************************************************************************)
(* Properties of the cache replacement                                     *)
(***************************************************************************)

\* the line of the L1 set in way w is replaced by the step
Evicted(w) ==
    /\ mem.l1.sets[LruSet].lines[w].state # "Invalid"
    /\ mem'.l1.sets[LruSet].lines[w].tag # mem.l1.sets[LruSet].lines[w].tag

\* the address among LruAddrs of the line in way w
LineAddr(w) ==
    CHOOSE a \in LruAddrs : L1Tag(a) = mem.l1.sets[LruSet].lines[w].tag

\* C31: the victim of a miss is an Invalid line if the set has one, and
\* otherwise the line whose latest access is the oldest: a line read or
\* written after another line of the set is not evicted before it.
C31_LruVictim ==
    [][\A w \in 1..L1Assoc :
          Evicted(w) =>
              \A v \in 1..L1Assoc :
                  /\ mem.l1.sets[LruSet].lines[v].state # "Invalid"
                  /\ recency[LineAddr(w)] <= recency[LineAddr(v)]]_vars

(***************************************************************************)
(* Properties of the semaphore instructions                                *)
(***************************************************************************)

\* the bytes the claim has the instruction leave at its address
SemaphoreStored(i, prior, g) ==
    LET n == SizeBytes(i.size)
    IN  CASE i.op = "Xchg" -> SubSeq(g[i.src1], 1, n)
          [] i.op = "Cmpxchg" ->
                IF prior = SubSeq(g[i.src2], 1, n)
                THEN SubSeq(g[i.src1], 1, n) ELSE prior
          [] i.op = "Fetchadd" ->
                SubSeq(AddFrom(ZeroExtend(prior), g[i.src1], 1, 0), 1, n)

\* C32: a semaphore instruction with a true predicate writes the prior
\* memory value at the target size into the destination register; cmpxchg
\* stores the new value exactly when the prior value equals the compare
\* value truncated to the size, and otherwise leaves memory unchanged;
\* fetchadd stores prior + increment wrapped to the size.
C32_SemaphorePriorValue ==
    (last.op = "semaphore" /\ pr[last.instruction.qp]) =>
        /\ last.res = "Ok"
        /\ gr[last.instruction.dest] = ZeroExtend(last.prior)
        /\ mem.regions[REGION_BASE].data =
              CopyInto(last.region, last.instruction.addr - REGION_BASE,
                       SemaphoreStored(last.instruction, last.prior, last.gr))

(***************************************************************************)
(* Properties of the user mask                                             *)
(***************************************************************************)

\* the user mask {UM (0), BE (3), PME (6), IC (13), I (14)}
UserMaskBits == <<73, 96, 0, 0, 0, 0, 0, 0>>

\* C33: sum, rum and xum change only the PSR bits of the user mask {UM,
\* BE, PME, IC, I}; in particular none of them, executed with
\* PSR.SECURE = 0, changes PSR.SECURE (bit 1) or PSR.RSE (bit 2).
C33_UserMaskOnly ==
    [][last'.op \in {"sum", "rum", "xum"}
       => BitAnd(cr'[CR_PSR], BitNot(UserMaskBits))
            = BitAnd(cr[CR_PSR], BitNot(UserMaskBits))]_vars

(***************************************************************************)
(* Properties of the failing and of the successful RSE operations          *)
(***************************************************************************)

\* the counters and the two pointers of an RSE
RseCounters(r) ==
    <<r.dirty_count, r.clean_count, r.invalid_count, r.bsp, r.bspstore>>

\* C34: when allocate_registers, spill_registers, fill_registers or
\* deallocate_registers returns an error (an RSEError or a propagated
\* MemoryError), dirty, clean, invalid, bsp and bspstore equal their values
\* before the call.
C34_FailureAtomic ==
    (/\ last.op \in {"allocate", "spill", "fill", "deallocate"}
     /\ last.res \in {"RSEError", "MemoryError"})
        => RseCounters(rse) = RseCounters(last.before)

\* dirty + clean + invalid
Population(r) == r.dirty_count + r.clean_count + r.invalid_count

\* C35: in every mode a successful allocate_registers, deallocate_registers,
\* spill_registers, fill_registers, flush or invalidate leaves dirty + clean
\* + invalid as it was, and no counter goes below zero.
C35_PopulationConserved ==
    [][last'.res = "Ok"
       => /\ Population(rse') = Population(rse)
          /\ rse'.dirty_count >= 0
          /\ rse'.clean_count >= 0
          /\ rse'.invalid_count >= 0]_vars

(***************************************************************************)
(* Properties of the raised interrupts                                     *)
(***************************************************************************)

\* the interrupts a controller holds: the pending ones and the current one
Held(c) ==
    {c.pending[k] : k \in DOMAIN c.pending}
        \cup (IF c.current = None THEN {} ELSE {c.current[1]})

\* C36: no raised interrupt is lost: every interrupt raised so far is
\* pending, is the current interrupt, or had its handler address returned;
\* in particular a check_interrupts or return_from_interrupt that returns
\* None drops none of the interrupts the controller held.
C36_NoInterruptLost ==
    /\ raised.states \subseteq Held(ic) \cup raised.returned
    /\ (last.op \in {"check_interrupts", "return_from_interrupt"}
            /\ last.res = None)
        => Held(last.before) \subseteq Held(ic) \cup raised.returned

\* C37: the controller has a current interrupt exactly when nesting_level
\* is above 0, nesting_level is the number of interrupts delivered and not
\* yet returned from, and so Cpu::return_from_interrupt fails with an
\* ExecutionError exactly when nesting_level is 0.
C37_CurrentIffNested ==
    /\ ic.current # None <=> ic.nesting_level > 0
    /\ ic.nesting_level = Len(delivered)
    /\ Cpu_return_from_interrupt(ic) = "ExecutionError" <=> ic.nesting_level = 0

\* the handler of the interrupt's vector is disabled, or asks for more
\* privilege than the interrupt was raised with
Undeliverable(table, state) ==
    \/ ~table[state.vector].enabled
    \/ PrivilegeLevel(state.psr) < table[state.vector].min_privilege

\* C38: an interrupt raised with a privilege below its vector's
\* min_privilege, or whose handler is disabled, is never the current
\* interrupt and never has its handler address returned while the handler
\* table stays as it was when the interrupt was raised.
C38_UndeliverableNeverCurrent ==
    \A state \in raised.stable :
        Undeliverable(ic.table, state)
            => /\ ic.current # Some(state)
               /\ state \notin raised.returned

(***************************************************************************)
(* Properties of a failing system call                                     *)
(***************************************************************************)

\* C39: a do_syscall that returns an error leaves the syscall manager
\* intact: every handler registered before the call is still registered,
\* and no syscall context is left pending.
C39_FailedSyscallKeepsManager ==
    (last.op = "do_syscall" /\ last.res # "Ok")
        => /\ \A n \in DOMAIN last.before.handlers :
                /\ n \in DOMAIN sc.handlers
                /\ sc.handlers[n] = last.before.handlers[n]
           /\ sc.current = None

====
